---- MODULE Spec2Model ----
(***************************************************************************)
(* Verification model of eccoxide: prime-field arithmetic, affine and      *)
(* projective short Weierstrass points, scalar multiplication.             *)
(*                                                                         *)
(* Field elements are modelled by their canonical integer in [0, p); the   *)
(* curves are small curves over F_7 with the shape of the repository's     *)
(* prime-order curves: one with A = 0 (the "k1" family, which carries the  *)
(* WeierstrassCurveA0 marker) and one with A = -3 (the "r1" family).       *)
(***************************************************************************)
EXTENDS Integers, Sequences, FiniteSets, TLC

VARIABLES curve, op, self, other, n, res, aff, fx, fy, sgn, k1, k2

vars == <<curve, op, self, other, n, res, aff, fx, fy, sgn, k1, k2>>

(***************************************************************************)
(* Curves.  p: field prime, a/b/b3: Weierstrass coefficients and 3*b,      *)
(* gx/gy: generator, order: group order, a0: WeierstrassCurveA0 marker.    *)
(***************************************************************************)
CurveK1 ==
    [name |-> "k1", p |-> 7, a |-> 0, b |-> 3, b3 |-> 2,
     gx |-> 1, gy |-> 2, order |-> 13, size_bytes |-> 1, a0 |-> TRUE]

CurveR1 ==
    [name |-> "r1", p |-> 7, a |-> 4, b |-> 6, b3 |-> 4,
     gx |-> 1, gy |-> 2, order |-> 11, size_bytes |-> 1, a0 |-> FALSE]

Curves == {CurveK1, CurveR1}

FE(c) == 0 .. (c.p - 1)

(***************************************************************************)
(* Field backend (fiat kernels): total operations on canonical residues.   *)
(***************************************************************************)
fe_zero == 0

fe_one == 1

fe_add(x, y, c) == (x + y) % c.p

fe_sub(x, y, c) == (x + c.p - y) % c.p

fe_mul(x, y, c) == (x * y) % c.p

fe_neg(x, c) == (c.p - x) % c.p

fe_square(x, c) == fe_mul(x, x, c)

fe_double(x, c) == fe_add(x, x, c)

fe_is_zero(x) == x = 0

\* CtEqual for a field element: subtract, then test zero.
fe_ct_eq(x, y, c) == fe_is_zero(fe_sub(x, y, c))

\* square_rep: square `count` times (count >= 1).
RECURSIVE square_rep(_, _, _)
square_rep(x, count, c) ==
    IF count <= 1 THEN fe_square(x, c)
    ELSE square_rep(fe_square(x, c), count - 1, c)

\* power: right-to-left square-and-multiply over the bits of e.
RECURSIVE fe_pow(_, _, _)
fe_pow(x, e, c) ==
    IF e = 0 THEN fe_one
    ELSE LET h == fe_pow(fe_square(x, c), e \div 2, c)
         IN  IF e % 2 = 1 THEN fe_mul(h, x, c) ELSE h

\* power_u64, the loop `for i in 0..64`: bit i of n is the lowest bit of
\* nn = n >> i.
RECURSIVE power_u64_loop(_, _, _, _, _)
power_u64_loop(a, q, nn, i, c) ==
    IF i >= 64 THEN q
    ELSE power_u64_loop(fe_square(a, c),
                        IF nn % 2 # 0 THEN fe_mul(q, a, c) ELSE q,
                        nn \div 2, i + 1, c)

\* power_u64: the cases n = 0, 1, 2, then square-and-multiply from q = one.
power_u64(x, e, c) ==
    IF e = 0 THEN fe_one
    ELSE IF e = 1 THEN x
    ELSE IF e = 2 THEN fe_square(x, c)
    ELSE power_u64_loop(x, fe_one, e, 0, c)

\* power, inner loop `for i in 0..8` over one byte of the exponent.
RECURSIVE power_limb(_, _, _, _, _)
power_limb(a, q, limb, i, c) ==
    IF i >= 8 THEN <<a, q>>
    ELSE power_limb(fe_square(a, c),
                    IF (limb \div (2 ^ i)) % 2 # 0 THEN fe_mul(q, a, c) ELSE q,
                    limb, i + 1, c)

\* power, outer loop `for limb in limbs.iter().rev()`.
RECURSIVE power_limbs(_, _, _, _, _)
power_limbs(a, q, limbs, idx, c) ==
    IF idx = 0 THEN q
    ELSE LET st == power_limb(a, q, limbs[idx], 0, c)
         IN  power_limbs(st[1], st[2], limbs, idx - 1, c)

power(x, limbs, c) == power_limbs(x, fe_one, limbs, Len(limbs), c)

\* Per-curve inverse(): fixed square-and-multiply chain to the exponent p-2;
\* the assert!(!self.is_zero()) is the caller's obligation (inverse_panics).
inverse_panics(x) == fe_is_zero(x)

inverse(x, c) == fe_pow(x, c.p - 2, c)

\* Sign: parity of the canonical (non-Montgomery) integer.
sign(x) == IF x % 2 = 1 THEN "Negative" ELSE "Positive"

Signs == {"Positive", "Negative"}

\* Option values: None is the empty set, Some(v) the singleton {v}.
None == {}

Some(v) == {v}

\* Per-curve sqrt() for p = 3 mod 4: r = self^((p+1)/4), validated by r*r == self.
sqrt(x, c) ==
    LET r  == fe_pow(x, (c.p + 1) \div 4, c)
        r2 == fe_mul(r, r, c)
    IN  IF fe_ct_eq(r2, x, c) THEN Some(r) ELSE None

\* p224k1 sqrt (p = 5 mod 8): gamma = (2 self)^((p-5)/8),
\* r = self gamma (2 self gamma^2 - 1), validated by r*r == self.
sqrt_p224k1(x, c) ==
    LET x2     == fe_double(x, c)
        gamma  == fe_pow(x2, (c.p - 5) \div 8, c)
        ggamma == fe_mul(x, gamma, c)
        i      == fe_double(fe_mul(ggamma, gamma, c), c)
        im1    == fe_sub(i, fe_one, c)
        r      == fe_mul(ggamma, im1, c)
        r2     == fe_mul(r, r, c)
    IN  IF fe_ct_eq(r2, x, c) THEN Some(r) ELSE None

\* p224r1: p - 1 = Q * 2^S with Q = 2^QBits - 1 and Z a non-residue
\* (S = 96, QBits = 128 for the 224-bit prime; 2 and 2 for the prime 13).
P224_S == 2

P224_QBits == 2

P224_Z == 11

\* is_quadratic_residue: Euler's criterion self^((p-1)/2) == 1.
is_quadratic_residue(x, c) ==
    LET xq == fe_pow(x, 2 ^ P224_QBits - 1, c)
    IN  fe_ct_eq(square_rep(xq, P224_S - 1, c), fe_one, c)

\* square_add_rep: the product of self^(2^i) for i < count.
RECURSIVE square_add_rep(_, _, _, _)
square_add_rep(a, q, count, c) ==
    IF count = 0 THEN q
    ELSE square_add_rep(fe_square(a, c), fe_mul(q, a, c), count - 1, c)

\* sqrt of p224r1, inner loop: the least i with t^(2^i) == 1; -1 stands
\* for the `return` of an absent value when i reaches m.
RECURSIVE p224r1_order(_, _, _, _)
p224r1_order(tt, i, m, c) ==
    IF tt = fe_one THEN i
    ELSE IF i + 1 = m THEN -1
    ELSE p224r1_order(fe_square(tt, c), i + 1, m, c)

RECURSIVE p224r1_loop(_, _, _, _, _)
p224r1_loop(r, t, cc, m, c) ==
    IF t = fe_one THEN Some(r)
    ELSE LET i == p224r1_order(t, 0, m, c)
         IN  IF i = -1 THEN None
             ELSE LET e  == m - i - 1
                      b  == IF e = 0 THEN cc ELSE square_rep(cc, e, c)
                      b2 == fe_square(b, c)
                  IN  p224r1_loop(fe_mul(r, b, c), fe_mul(t, b2, c), b2, i, c)

\* sqrt of p224r1: Tonelli-Shanks, absent for whatever fails Euler's
\* criterion, the final root validated by r*r == self.
sqrt_p224r1(x, c) ==
    IF ~is_quadratic_residue(x, c) THEN None
    ELSE LET found == p224r1_loop(square_rep(x, P224_QBits - 1, c),
                                  square_add_rep(x, fe_one, P224_QBits, c),
                                  square_add_rep(P224_Z, fe_one, P224_QBits, c),
                                  P224_S, c)
         IN  {r \in found : fe_ct_eq(fe_mul(r, r, c), x, c)}

(***************************************************************************)
(* Projective points (X, Y, Z): src/curve/projective.rs                    *)
(***************************************************************************)
Pt(x, y, z) == [x |-> x, y |-> y, z |-> z]

\* Affine point (x, y), src/curve/affine.rs.
Aff(x, y) == [x |-> x, y |-> y]

infinity == Pt(fe_zero, fe_one, fe_zero)

generator(c) == Pt(c.gx, c.gy, fe_one)

from_affine(p) == Pt(p.x, p.y, fe_one)

\* Variant of is_equivalent that compares the X cross products only.
is_equivalent_x_only(P, Q, c) ==
    fe_ct_eq(fe_mul(P.x, Q.z, c), fe_mul(Q.x, P.z, c), c)

is_equivalent(P, Q, c) ==
    LET nx1 == fe_mul(P.x, Q.z, c)
        nx2 == fe_mul(Q.x, P.z, c)
        ny1 == fe_mul(P.y, Q.z, c)
        ny2 == fe_mul(Q.y, P.z, c)
    IN  fe_ct_eq(nx1, nx2, c) /\ fe_ct_eq(ny1, ny2, c)

is_infinity(P, c) == fe_ct_eq(P.z, fe_zero, c)

\* The textbook chord addition in homogeneous coordinates, which has no
\* value for equal inputs (u = v = 0 gives the triple (0, 0, 0)).
add_different_chord(P, Q, c) ==
    LET u   == fe_sub(fe_mul(Q.y, P.z, c), fe_mul(P.y, Q.z, c), c)
        v   == fe_sub(fe_mul(Q.x, P.z, c), fe_mul(P.x, Q.z, c), c)
        zz  == fe_mul(P.z, Q.z, c)
        vv  == fe_square(v, c)
        vvv == fe_mul(vv, v, c)
        r   == fe_mul(vv, fe_mul(P.x, Q.z, c), c)
        w   == fe_sub(fe_sub(fe_mul(fe_square(u, c), zz, c), vvv, c), fe_double(r, c), c)
    IN  Pt(fe_mul(v, w, c),
           fe_sub(fe_mul(u, fe_sub(r, w, c), c),
                  fe_mul(vvv, fe_mul(P.y, Q.z, c), c), c),
           fe_mul(vvv, zz, c))

\* Algorithm 1: addition formula for arbitrary a.
add_different(P, Q, c) ==
    LET t0  == fe_mul(P.x, Q.x, c)
        t1  == fe_mul(P.y, Q.y, c)
        t2  == fe_mul(P.z, Q.z, c)
        t3  == fe_add(P.x, P.y, c)
        t4  == fe_add(Q.x, Q.y, c)
        t3a == fe_mul(t3, t4, c)
        t4a == fe_add(t0, t1, c)
        t3b == fe_sub(t3a, t4a, c)
        t4b == fe_add(P.x, P.z, c)
        t5  == fe_add(Q.x, Q.z, c)
        t4c == fe_mul(t4b, t5, c)
        t5a == fe_add(t0, t2, c)
        t4d == fe_sub(t4c, t5a, c)
        t5b == fe_add(P.y, P.z, c)
        x3  == fe_add(Q.y, Q.z, c)
        t5c == fe_mul(t5b, x3, c)
        x3a == fe_add(t1, t2, c)
        t5d == fe_sub(t5c, x3a, c)
        z3  == fe_mul(c.a, t4d, c)
        x3b == fe_mul(c.b3, t2, c)
        z3a == fe_add(x3b, z3, c)
        x3c == fe_sub(t1, z3a, c)
        z3b == fe_add(t1, z3a, c)
        y3  == fe_mul(x3c, z3b, c)
        t1a == fe_double(t0, c)
        t1b == fe_add(t1a, t0, c)
        t2a == fe_mul(c.a, t2, c)
        t4e == fe_mul(c.b3, t4d, c)
        t1c == fe_add(t1b, t2a, c)
        t2b == fe_sub(t0, t2a, c)
        t2c == fe_mul(c.a, t2b, c)
        t4f == fe_add(t4e, t2c, c)
        t0a == fe_mul(t1c, t4f, c)
        y3a == fe_add(y3, t0a, c)
        t0b == fe_mul(t5d, t4f, c)
        x3d == fe_mul(t3b, x3c, c)
        x3e == fe_sub(x3d, t0b, c)
        t0c == fe_mul(t3b, t1c, c)
        z3c == fe_mul(t5d, z3b, c)
        z3d == fe_add(z3c, t0c, c)
    IN  Pt(x3e, y3a, z3d)

\* Addition formula for a = 0.
add_different_a0(P, Q, c) ==
    LET t0  == fe_mul(P.x, Q.x, c)
        t1  == fe_mul(P.y, Q.y, c)
        t2  == fe_mul(P.z, Q.z, c)
        t3  == fe_add(P.x, P.y, c)
        t4  == fe_add(Q.x, Q.y, c)
        t3a == fe_mul(t3, t4, c)
        t4a == fe_add(t0, t1, c)
        t3b == fe_sub(t3a, t4a, c)
        t4b == fe_add(P.y, P.z, c)
        x3  == fe_add(Q.y, Q.z, c)
        t4c == fe_mul(t4b, x3, c)
        x3a == fe_add(t1, t2, c)
        t4d == fe_sub(t4c, x3a, c)
        x3b == fe_add(P.x, P.z, c)
        y3  == fe_add(Q.x, Q.z, c)
        x3c == fe_mul(x3b, y3, c)
        y3a == fe_add(t0, t2, c)
        y3b == fe_sub(x3c, y3a, c)
        x3d == fe_add(t0, t0, c)
        t0a == fe_add(x3d, t0, c)
        t2a == fe_mul(c.b3, t2, c)
        z3  == fe_add(t1, t2a, c)
        t1a == fe_sub(t1, t2a, c)
        y3c == fe_mul(c.b3, y3b, c)
        x3e == fe_mul(t4d, y3c, c)
        t2b == fe_mul(t3b, t1a, c)
        x3f == fe_sub(t2b, x3e, c)
        y3d == fe_mul(y3c, t0a, c)
        t1b == fe_mul(t1a, z3, c)
        y3e == fe_add(t1b, y3d, c)
        t0b == fe_mul(t0a, t3b, c)
        z3a == fe_mul(z3, t4d, c)
        z3b == fe_add(z3a, t0b, c)
    IN  Pt(x3f, y3e, z3b)

\* Algorithm 3: doubling formula for arbitrary a.
double(P, c) ==
    LET t0  == fe_square(P.x, c)
        t1  == fe_square(P.y, c)
        t2  == fe_square(P.z, c)
        t3  == fe_mul(P.x, P.y, c)
        t3a == fe_double(t3, c)
        z3  == fe_mul(P.x, P.z, c)
        z3a == fe_add(z3, z3, c)
        x3  == fe_mul(c.a, z3a, c)
        y3  == fe_mul(c.b3, t2, c)
        y3a == fe_add(x3, y3, c)
        x3a == fe_sub(t1, y3a, c)
        y3b == fe_add(t1, y3a, c)
        y3c == fe_mul(x3a, y3b, c)
        x3b == fe_mul(t3a, x3a, c)
        z3b == fe_mul(c.b3, z3a, c)
        t2a == fe_mul(c.a, t2, c)
        t3b == fe_sub(t0, t2a, c)
        t3c == fe_mul(c.a, t3b, c)
        t3d == fe_add(t3c, z3b, c)
        z3c == fe_add(t0, t0, c)
        t0a == fe_add(z3c, t0, c)
        t0b == fe_add(t0a, t2a, c)
        t0c == fe_mul(t0b, t3d, c)
        y3d == fe_add(y3c, t0c, c)
        t2b == fe_mul(P.y, P.z, c)
        t2c == fe_add(t2b, t2b, c)
        t0d == fe_mul(t2c, t3d, c)
        x3c == fe_sub(x3b, t0d, c)
        z3d == fe_mul(t2c, t1, c)
        z3e == fe_add(z3d, z3d, c)
        z3f == fe_add(z3e, z3e, c)
    IN  Pt(x3c, y3d, z3f)

\* Variant of the a = 0 doubling that scales Y^2 by 4 instead of 8.
double_a0_four_y2(P, c) ==
    LET t0  == fe_square(P.y, c)
        z3  == fe_add(t0, t0, c)
        z3a == fe_double(z3, c)
        z3b == z3a
        t1  == fe_mul(P.y, P.z, c)
        t2  == fe_square(P.z, c)
        t2a == fe_mul(c.b3, t2, c)
        x3  == fe_mul(t2a, z3b, c)
        y3  == fe_add(t0, t2a, c)
        z3c == fe_mul(t1, z3b, c)
        t1a == fe_add(t2a, t2a, c)
        t2b == fe_add(t1a, t2a, c)
        t0a == fe_sub(t0, t2b, c)
        y3a == fe_mul(t0a, y3, c)
        y3b == fe_add(x3, y3a, c)
        t1b == fe_mul(P.x, P.y, c)
        x3a == fe_mul(t0a, t1b, c)
        x3b == fe_double(x3a, c)
    IN  Pt(x3b, y3b, z3c)

\* Algorithm 5: doubling formula for a = 0.
double_a0(P, c) ==
    LET t0  == fe_square(P.y, c)
        z3  == fe_add(t0, t0, c)
        z3a == fe_double(z3, c)
        z3b == fe_double(z3a, c)
        t1  == fe_mul(P.y, P.z, c)
        t2  == fe_square(P.z, c)
        t2a == fe_mul(c.b3, t2, c)
        x3  == fe_mul(t2a, z3b, c)
        y3  == fe_add(t0, t2a, c)
        z3c == fe_mul(t1, z3b, c)
        t1a == fe_add(t2a, t2a, c)
        t2b == fe_add(t1a, t2a, c)
        t0a == fe_sub(t0, t2b, c)
        y3a == fe_mul(t0a, y3, c)
        y3b == fe_add(x3, y3a, c)
        t1b == fe_mul(P.x, P.y, c)
        x3a == fe_mul(t0a, t1b, c)
        x3b == fe_double(x3a, c)
    IN  Pt(x3b, y3b, z3c)

\* Variants of the dispatch with the two branches exchanged.
add_or_double_swapped(P, Q, c) ==
    IF is_equivalent(P, Q, c) THEN add_different(P, Q, c) ELSE double(P, c)

add_or_double_a0_swapped(P, Q, c) ==
    IF is_equivalent(P, Q, c) THEN add_different_a0(P, Q, c) ELSE double_a0(P, c)

add_or_double(P, Q, c) ==
    IF is_equivalent(P, Q, c) THEN double(P, c) ELSE add_different(P, Q, c)

add_or_double_a0(P, Q, c) ==
    IF is_equivalent(P, Q, c) THEN double_a0(P, c) ELSE add_different_a0(P, Q, c)

\* Variants of negation: flipping X instead of Y, and flipping nothing.
neg_flips_x(P, c) == Pt(fe_neg(P.x, c), P.y, P.z)

neg_flips_nothing(P, c) == Pt(P.x, P.y, P.z)

\* Neg for Point: flips Y only.
neg(P, c) == Pt(P.x, fe_neg(P.y, c), P.z)

\* Per-curve Point::add_or_double: the A=0 curves bind the a0 variant.
point_add(P, Q, c) ==
    IF c.a0 THEN add_or_double_a0(P, Q, c) ELSE add_or_double(P, Q, c)

\* Sub for Point: self + (-other).
point_sub(P, Q, c) == point_add(P, neg(Q, c), c)

normalize(P, c) ==
    IF ~fe_is_zero(P.z)
    THEN LET zinv == inverse(P.z, c)
         IN  Pt(fe_mul(P.x, zinv, c), fe_mul(P.y, zinv, c), fe_one)
    ELSE P

\* Variant of to_affine that leaves Y unscaled.
to_affine_y_unscaled(P, c) ==
    IF fe_is_zero(P.z) THEN None
    ELSE Some([x |-> fe_mul(P.x, inverse(P.z, c), c), y |-> P.y])

to_affine(P, c) ==
    IF fe_ct_eq(P.z, fe_one, c) THEN Some([x |-> P.x, y |-> P.y])
    ELSE IF fe_is_zero(P.z) THEN None
    ELSE LET inv == inverse(P.z, c)
         IN  Some([x |-> fe_mul(P.x, inv, c), y |-> fe_mul(P.y, inv, c)])

\* One pass of the inner loop `for i in 0..8` over a digit, from bit i on.
\* Variant of the bit loop that doubles the running multiple only when the
\* bit is clear.
RECURSIVE daa_bits_skip_double(_, _, _, _, _, _)
daa_bits_skip_double(a, q, digit, i, a0, c) ==
    IF i >= 8 THEN <<a, q>>
    ELSE LET bit == (digit \div (2 ^ i)) % 2 # 0
             st  == {IF bit
                     THEN <<a, IF a0 THEN add_or_double_a0(q, a, c)
                                     ELSE add_or_double(q, a, c)>>
                     ELSE <<IF a0 THEN double_a0(a, c) ELSE double(a, c), q>>}
         IN  CHOOSE r \in {daa_bits_skip_double(v[1], v[2], digit, i + 1, a0, c) : v \in st} : TRUE

RECURSIVE daa_bits(_, _, _, _, _, _)
daa_bits(a, q, digit, i, a0, c) ==
    IF i >= 8 THEN <<a, q>>
    ELSE LET q1 == IF (digit \div (2 ^ i)) % 2 # 0
                   THEN (IF a0 THEN add_or_double_a0(q, a, c)
                               ELSE add_or_double(q, a, c))
                   ELSE q
             a1 == IF a0 THEN double_a0(a, c) ELSE double(a, c)
             \* the loop state after this iteration, as a value
             st == {<<a1, q1>>}
         IN  CHOOSE r \in {daa_bits(v[1], v[2], digit, i + 1, a0, c) : v \in st} : TRUE

\* Variant of one loop iteration that adds the running multiple after
\* doubling it.
daa_step_add_doubled(a, q, digit, i, a0, c) ==
    LET a1 == IF a0 THEN double_a0(a, c) ELSE double(a, c)
        q1 == IF (digit \div (2 ^ i)) % 2 # 0
              THEN (IF a0 THEN add_or_double_a0(q, a1, c)
                          ELSE add_or_double(q, a1, c))
              ELSE q
    IN  <<a1, q1>>

\* One iteration of the inner loop, at bit i of the digit:
\*   if digit & (1 << i) != 0 { q = q.add_or_double(&a, curve); }
\*   a = a.double(curve)
daa_step(a, q, digit, i, a0, c) ==
    LET q1 == IF (digit \div (2 ^ i)) % 2 # 0
              THEN (IF a0 THEN add_or_double_a0(q, a, c)
                          ELSE add_or_double(q, a, c))
              ELSE q
        a1 == IF a0 THEN double_a0(a, c) ELSE double(a, c)
    IN  <<a1, q1>>

\* Variant of the outer loop that walks the bytes first to last.
RECURSIVE daa_digits_norev(_, _, _, _, _, _)
daa_digits_norev(a, q, digits, idx, a0, c) ==
    IF idx = 0 THEN q
    ELSE LET st == {daa_bits(a, q, digits[Len(digits) - idx + 1], 0, a0, c)}
         IN  CHOOSE r \in {daa_digits_norev(v[1], v[2], digits, idx - 1, a0, c) : v \in st} : TRUE

\* The outer loop `for digit in n.iter().rev()`: idx runs from Len(n) down to 1.
RECURSIVE daa_digits(_, _, _, _, _, _)
daa_digits(a, q, digits, idx, a0, c) ==
    IF idx = 0 THEN q
    ELSE LET st == {daa_bits(a, q, digits[idx], 0, a0, c)}
         IN  CHOOSE r \in {daa_digits(v[1], v[2], digits, idx - 1, a0, c) : v \in st} : TRUE

scalar_mul_daa_limbs8(P, digits, c) ==
    daa_digits(P, infinity, digits, Len(digits), FALSE, c)

scalar_mul_daa_limbs8_a0(P, digits, c) ==
    daa_digits(P, infinity, digits, Len(digits), TRUE, c)

scale(P, digits, c) == scalar_mul_daa_limbs8(P, digits, c)

scale_a0(P, digits, c) == scalar_mul_daa_limbs8_a0(P, digits, c)

\* Scalar: residues modulo the group order; to_bytes is big-endian, fixed width.
Scalars(c) == 0 .. (c.order - 1)

scalar_add(x, y, c) == (x + y) % c.order

scalar_to_bytes(k, c) ==
    [i \in 1 .. c.size_bytes |-> (k \div (256 ^ (c.size_bytes - i))) % 256]

\* Per-curve Point::scale and Mul<&Scalar> for &Point.
point_scale(P, k, c) ==
    IF c.a0 THEN scale_a0(P, scalar_to_bytes(k, c), c)
            ELSE scale(P, scalar_to_bytes(k, c), c)

point_mul(P, k, c) == point_scale(P, k, c)

(***************************************************************************)
(* Affine points (x, y): src/curve/affine.rs                               *)
(***************************************************************************)
\* Variant of from_coordinate that drops the A*x term.
from_coordinate_no_ax(x, y, c) ==
    IF fe_ct_eq(fe_square(y, c), fe_add(fe_mul(fe_square(x, c), x, c), c.b, c), c)
    THEN Some(Aff(x, y))
    ELSE None

from_coordinate(x, y, c) ==
    LET y2 == fe_square(y, c)
        x3 == fe_mul(fe_square(x, c), x, c)
        ax == fe_mul(c.a, x, c)
    IN  IF fe_ct_eq(y2, fe_add(fe_add(x3, ax, c), c.b, c), c)
        THEN Some(Aff(x, y))
        ELSE None

compress(p) == <<p.x, sign(p.y)>>

decompress(x, y_sign, c) ==
    LET yy == fe_add(fe_add(fe_mul(fe_square(x, c), x, c),
                            fe_mul(c.a, x, c), c), c.b, c)
        r  == sqrt(yy, c)
    IN  IF r = None THEN None
        ELSE LET y          == CHOOSE v \in r : TRUE
                 found_sign == sign(y)
                 ny         == fe_neg(y, c)
             IN  IF found_sign = y_sign
                 THEN Some(Aff(x, y))
                 ELSE Some(Aff(x, ny))

\* Affine double and add_different: one field inversion each, of 2 y1 and
\* of x1 - x2; the inverse's assertion is what stops them (.._panics).
affine_double_panics(P, c) == inverse_panics(fe_double(P.y, c))

affine_double(P, c) ==
    LET l  == fe_mul(fe_add(fe_mul(3 % c.p, fe_square(P.x, c), c), c.a, c),
                     inverse(fe_double(P.y, c), c), c)
        l2 == fe_square(l, c)
        x3 == fe_sub(l2, fe_double(P.x, c), c)
        y3 == fe_sub(fe_mul(l, fe_sub(P.x, x3, c), c), P.y, c)
    IN  Aff(x3, y3)

affine_add_different_panics(P, Q, c) == inverse_panics(fe_sub(P.x, Q.x, c))

affine_add_different(P, Q, c) ==
    LET l  == fe_mul(fe_sub(P.y, Q.y, c), inverse(fe_sub(P.x, Q.x, c), c), c)
        l2 == fe_square(l, c)
        x3 == fe_sub(fe_sub(l2, P.x, c), Q.x, c)
        y3 == fe_sub(fe_mul(l, fe_sub(P.x, x3, c), c), P.y, c)
    IN  Aff(x3, y3)

(***************************************************************************)
(* The bigint backend: src/curve/bigint and src/curve/helper.rs            *)
(***************************************************************************)
\* helper::mod_inverse: the extended Euclid loop on (t, newt, r, newr).
RECURSIVE mod_inverse_loop(_, _, _, _)
mod_inverse_loop(t, newt, r, newr) ==
    IF newr = 0 THEN <<t, r>>
    ELSE LET quotient == r \div newr
         IN  mod_inverse_loop(newt, t - quotient * newt, newr, r - quotient * newr)

mod_inverse_panics(a, m) == mod_inverse_loop(0, 1, m, a)[2] > 1

mod_inverse(a, m) ==
    LET t == mod_inverse_loop(0, 1, m, a)[1]
    IN  IF t < 0 THEN t + m ELSE t

bigint_is_zero(x) == x = 0

bigint_mul(x, y, c) == (x * y) % c.p

bigint_inverse(x, c) ==
    IF bigint_is_zero(x) THEN None ELSE Some(mod_inverse(x, c.p))

bigint_to_affine(P, c) ==
    {Aff(bigint_mul(P.x, inv, c), bigint_mul(P.y, inv, c)) : inv \in bigint_inverse(P.z, c)}

\* normalize of the bigint Point: self.z.inverse().unwrap(), with no test
\* of Z; the unwrap of None panics.
bigint_normalize_panics(P, c) == bigint_inverse(P.z, c) = None

bigint_normalize(P, c) ==
    LET zinv == CHOOSE v \in bigint_inverse(P.z, c) : TRUE
    IN  Pt(bigint_mul(P.x, zinv, c), bigint_mul(P.y, zinv, c), 1)

\* An equality of the stored coordinates instead of the affine conversions.
bigint_point_eq_structural(P, Q, c) == P = Q

\* PartialEq for the bigint Point: equality of the affine conversions.
bigint_point_eq(P, Q, c) == bigint_to_affine(P, c) = bigint_to_affine(Q, c)

\* add_different of the bigint Point: assert!(self != other), then
\* Algorithm 1 as in the generic layer.
bigint_add_different_panics(P, Q, c) == bigint_point_eq(P, Q, c)

bigint_add_different(P, Q, c) == add_different(P, Q, c)

bigint_add(x, y, c) == (x + y) % c.p

\* Sub: (self + (-other)) % p, with the unreduced negation below.
bigint_sub(x, y, c) == (x + (c.p - y)) % c.p

\* The curve constant B3 of the bigint backend: B * 3, not reduced.
bigint_b3(c) == c.b * 3

\* double: self + self.
bigint_double(x, c) == bigint_add(x, x, c)

\* Neg: p - self, not reduced (the negation of 0 is p).
bigint_neg(x, c) == c.p - x

\* high_bit_set with the comparison made inclusive.
high_bit_set_inclusive(x, c) == x >= (c.p \div 2)

\* high_bit_set: the integer is above p / 2 (integer division).
high_bit_set(x, c) == x > (c.p \div 2)

\* BigUint::modpow by square-and-multiply.
RECURSIVE modpow(_, _, _)
modpow(b, e, m) ==
    IF e = 0 THEN 1 % m
    ELSE LET h == modpow(b, e \div 2, m)
             h2 == (h * h) % m
         IN  IF e % 2 = 1 THEN (h2 * b) % m ELSE h2

bigint_power(x, e, c) == modpow(x, e, c.p)

\* The width of the machine word r of legendre_symbol (u64), scaled to the
\* model primes: the primes above 2^WordBits stand for the primes wider
\* than 64 bits.
WordBits == 4

\* BigUint::to_u64: present when the value fits the word.
to_u64(v) == IF v < 2 ^ WordBits THEN Some(v) ELSE None

\* legendre_symbol: `.to_u64().unwrap()` panics when the power does not
\* fit the word.
legendre_symbol_panics(a, m) == to_u64(modpow(a, (m - 1) \div 2, m)) = None

legendre_symbol(a, m) ==
    LET r == modpow(a, (m - 1) \div 2, m)
    IN  IF r = 1 THEN "One" ELSE IF r = 0 THEN "Zero" ELSE "MinusOne"

\* tonelli_shanks: q, s with p - 1 = q * 2^s, q odd.
RECURSIVE ts_split(_, _)
ts_split(q, s) == IF q % 2 = 0 THEN ts_split(q \div 2, s + 1) ELSE <<q, s>>

\* tonelli_shanks: the first z >= 2 with z^((p-1)/2) = p - 1.
RECURSIVE ts_find_z(_, _)
ts_find_z(z, m) ==
    IF modpow(z, (m - 1) \div 2, m) # m - 1 THEN ts_find_z(z + 1, m) ELSE z

\* tonelli_shanks: the inner loop; -1 stands for its `return None`.
RECURSIVE ts_order(_, _, _, _)
ts_order(tt, i, m, md) ==
    IF tt = 1 THEN i
    ELSE IF i + 1 = m THEN -1
    ELSE ts_order((tt * tt) % md, i + 1, m, md)

RECURSIVE ts_loop(_, _, _, _, _)
ts_loop(r, t, cc, m, md) ==
    IF t = 1 THEN Some(r)
    ELSE LET i == ts_order(t, 0, m, md)
         IN  IF i = -1 THEN None
             ELSE LET exponent == modpow(2, m - i - 1, md - 1)
                      b  == modpow(cc, exponent, md)
                      b2 == (b * b) % md
                  IN  ts_loop((r * b) % md, (t * b2) % md, b2, i, md)

tonelli_shanks(v, md) ==
    IF legendre_symbol(v, md) # "One" THEN None
    ELSE LET qs == ts_split(md - 1, 0)
             q  == qs[1]
             s  == qs[2]
         IN  IF s = 1 THEN Some(modpow(v, (md + 1) \div 4, md))
             ELSE ts_loop(modpow(v, (q + 1) \div 2, md), modpow(v, q, md),
                          modpow(ts_find_z(2, md), q, md), s, md)

\* FieldElement::sqrt of the bigint backend.
bigint_sqrt(x, c) ==
    IF c.p % 4 = 3 THEN Some(modpow(x, (c.p + 1) \div 4, c.p))
    ELSE tonelli_shanks(x, c.p)

\* PointAffine::decompress of the bigint backend; bit is the requested
\* high_bit_set of y.
bigint_decompress(x, bit, c) ==
    LET yy == bigint_add(bigint_add(bigint_power(x, 3, c), bigint_mul(c.a, x, c), c), c.b, c)
    IN  {IF bit = high_bit_set(y, c) THEN Aff(x, y) ELSE Aff(x, bigint_neg(y, c)) :
            y \in bigint_sqrt(yy, c)}

\* Scalar::sqrt of the bigint backend: the modulus is ORDER, the test is
\* ORDER mod 4, and the exponent OP1D4 is computed from P.
bigint_scalar_sqrt(x, c) ==
    IF c.order % 4 = 3 THEN Some(modpow(x, (c.p + 1) \div 4, c.order))
    ELSE tonelli_shanks(x, c.order)

bigint_compress(p, c) == <<p.x, high_bit_set(p.y, c)>>

(***************************************************************************)
(* The superseded secp256k1 module: src/curve/sec2/p256k1/{fe,gm,mod}.rs   *)
(***************************************************************************)
\* FieldElement::power: the accumulator q starts at zero, so every exponent
\* above 2 yields zero.
fe_power_k1(x, e, c) ==
    IF e = 0 THEN fe_one
    ELSE IF e = 1 THEN x
    ELSE IF e = 2 THEN fe_square(x, c)
    ELSE fe_zero

\* Scalar::power of the superseded module: as power_u64, from q = one.
gm_power(x, e, c) ==
    IF e = 0 THEN fe_one
    ELSE IF e = 1 THEN x
    ELSE IF e = 2 THEN fe_square(x, c)
    ELSE power_u64_loop(x, fe_one, e, 0, c)

\* Point::normalize of the superseded module: self.z.inverse(), with no
\* test of Z; FieldElement::inverse asserts a nonzero argument.
k1_normalize_panics(P) == inverse_panics(P.z)

k1_normalize(P, c) ==
    LET zinv == inverse(P.z, c)
    IN  Pt(fe_mul(P.x, zinv, c), fe_mul(P.y, zinv, c), fe_one)

\* FieldElement::high_bit_set: the lowest bit of the canonical integer.
fe_high_bit_set_k1(x) == x % 2 # 0

k1_compress(p) == <<p.x, fe_high_bit_set_k1(p.y)>>

k1_decompress(x, bit, c) ==
    LET yy == fe_add(fe_add(fe_power_k1(x, 3, c), fe_mul(c.a, x, c), c), c.b, c)
    IN  {IF bit = fe_high_bit_set_k1(y) THEN Aff(x, y) ELSE Aff(x, fe_neg(y, c)) :
            y \in sqrt(yy, c)}

(***************************************************************************)
(* Byte strings and limbs: src/mp/limbs.rs and the from_bytes / to_bytes   *)
(* of the field macros.  A limb holds 4 bits here (64 in the source), so a *)
(* one-byte element spans two limbs and the borrow chain has two steps.    *)
(***************************************************************************)
LimbBase == 16

LimbsPerByte == 2

reverse(b) == [i \in 1 .. Len(b) |-> b[Len(b) + 1 - i]]

\* The integer held by little-endian digits of the given base.
RECURSIVE le_value(_, _)
le_value(digits, base) ==
    IF Len(digits) = 0 THEN 0
    ELSE digits[1] + base * le_value(Tail(digits), base)

le_digits(v, base, k) == [i \in 1 .. k |-> (v \div (base ^ (i - 1))) % base]

\* The backend's from_bytes / to_bytes between little-endian bytes and limbs.
fiat_from_bytes(buf) == le_digits(le_value(buf, 256), LimbBase, LimbsPerByte * Len(buf))

fiat_to_bytes(limbs) == le_digits(le_value(limbs, LimbBase), 256, Len(limbs) \div LimbsPerByte)

\* limb_subborrow without the incoming borrow: arg2 - arg3.
limb_subborrow_drops_borrow(arg1, arg2, arg3) ==
    LET x1 == arg2 - arg3
    IN  IF x1 < 0 THEN <<x1 + LimbBase, 1>> ELSE <<x1, 0>>

\* limb_subborrow: arg2 - arg1 - arg3 as <<limb, borrow>>.
limb_subborrow(arg1, arg2, arg3) ==
    LET x1 == arg2 - arg1 - arg3
    IN  IF x1 < 0 THEN <<x1 + LimbBase, 1>> ELSE <<x1, 0>>

\* limbsle_lt: the borrow out of a - b, limb by limb from the low end.
RECURSIVE limbsle_borrow(_, _, _, _)
limbsle_borrow(a, b, i, borrow) ==
    IF i > Len(a) THEN borrow
    ELSE limbsle_borrow(a, b, i + 1, limb_subborrow(borrow, a[i], b[i])[2])

limbsle_lt(a, b) == limbsle_borrow(a, b, 1, 0) # 0

\* LimbsBE::iter_from_low is iter().rev(): the borrow chain of the
\* big-endian comparisons runs over the reversed limbs.
limbsbe_borrow(a, b) == limbsle_borrow(reverse(a), reverse(b), 1, 0)

\* The assert_eq!(a.len(), b.len()) that opens each of the four comparisons.
limbs_cmp_panics(a, b) == Len(a) # Len(b)

\* from_bytes of the fiat macros: big-endian bytes, accepted when the limbs
\* compare below the limbs of the modulus m.  An element is written as the
\* integer its Montgomery form stands for.
from_bytes(bytes, m) ==
    LET out == fiat_from_bytes(reverse(bytes))
        pl  == le_digits(m, LimbBase, Len(out))
    IN  IF limbsle_lt(out, pl) THEN Some(le_value(out, LimbBase)) ELSE None

to_bytes(x, size) == reverse(fiat_to_bytes(le_digits(x, LimbBase, LimbsPerByte * size)))

\* Scalar::from_bytes of the superseded secp256k1 module: no comparison
\* with the order; to_montgomery reduces whatever the bytes hold.
gm_from_bytes(bytes, m) == Some(le_value(fiat_from_bytes(reverse(bytes)), LimbBase) % m)

\* The Scalar type of a curve: the same macros over the group order.
ScalarField(c) == [c EXCEPT !.p = c.order]

\* Scalar::inverse of the superseded secp256k1 module: the chain to the
\* exponent order - 2, with no assertion on its argument.
gm_inverse(x, c) == fe_pow(x, c.p - 2, c)

\* from_bytes of the bigint macro.
bigint_from_bytes(bytes, m) ==
    LET nn == le_value(reverse(bytes), 256)
    IN  IF nn >= m THEN None ELSE Some(nn)

\* BigUint::to_bytes_be: the shortest big-endian form, <<0>> for zero.
RECURSIVE to_bytes_be(_)
to_bytes_be(x) ==
    IF x < 256 THEN <<x>> ELSE Append(to_bytes_be(x \div 256), x % 256)

\* to_bytes of the bigint macro: left-padded with zeros to the size.
bigint_to_bytes(x, size) ==
    LET bs    == to_bytes_be(x)
        start == size - Len(bs)
    IN  [i \in 1 .. size |-> IF i <= start THEN 0 ELSE bs[i - start]]

(***************************************************************************)
(* Reference group: the affine chord-and-tangent law on normal forms.      *)
(* A group element is the point at infinity O = (0:1:0) or a finite point  *)
(* in the form (x:y:1).  Written with plain integer arithmetic.            *)
(***************************************************************************)
RefO == [x |-> 0, y |-> 1, z |-> 0]

RefInv(v, c) == CHOOSE i \in 1 .. (c.p - 1) : (v * i) % c.p = 1

OnCurve(P, c) ==
    /\ ~(P.x = 0 /\ P.y = 0 /\ P.z = 0)
    /\ (P.y * P.y * P.z) % c.p
         = (P.x * P.x * P.x + c.a * P.x * P.z * P.z + c.b * P.z * P.z * P.z) % c.p

OnCurveAffine(x, y, c) == (y * y) % c.p = (x * x * x + c.a * x + c.b) % c.p

RefNorm(P, c) ==
    IF P.z = 0 THEN RefO
    ELSE LET zi == RefInv(P.z, c)
         IN  [x |-> (P.x * zi) % c.p, y |-> (P.y * zi) % c.p, z |-> 1]

RefNeg(A, c) == IF A.z = 0 THEN RefO ELSE [A EXCEPT !.y = (c.p - A.y) % c.p]

RefAdd(A, B, c) ==
    IF A.z = 0 THEN B
    ELSE IF B.z = 0 THEN A
    ELSE IF A.x = B.x /\ (A.y + B.y) % c.p = 0 THEN RefO
    ELSE LET l  == IF A.x = B.x
                   THEN ((3 * A.x * A.x + c.a) * RefInv((2 * A.y) % c.p, c)) % c.p
                   ELSE ((B.y + c.p - A.y) * RefInv((B.x + c.p - A.x) % c.p, c)) % c.p
             x3 == (l * l + 2 * c.p - A.x - B.x) % c.p
             y3 == (l * (A.x + c.p - x3) + c.p - A.y) % c.p
         IN  [x |-> x3, y |-> y3, z |-> 1]

\* [k]A by left-to-right binary expansion of k.
RECURSIVE RefMul(_, _, _)
RefMul(k, A, c) ==
    IF k = 0 THEN RefO
    ELSE LET h == RefMul(k \div 2, A, c)
             d == RefAdd(h, h, c)
         IN  IF k % 2 = 1 THEN RefAdd(d, A, c) ELSE d

\* P is a representative of the group element G.
InClass(P, G, c) ==
    IF G.z = 0 THEN P.z = 0 /\ P.x = 0 /\ P.y # 0
    ELSE P.z # 0 /\ RefNorm(P, c) = G

\* Every projective triple on the curve (all representatives).
OnCurveTriples(c) ==
    {P \in [x : FE(c), y : FE(c), z : FE(c)] : OnCurve(P, c)}

\* The unsigned big-endian integer encoded by a byte string.
RECURSIVE BytesToInt(_)
BytesToInt(digits) ==
    IF Len(digits) = 0 THEN 0
    ELSE 256 * BytesToInt(SubSeq(digits, 1, Len(digits) - 1)) + digits[Len(digits)]

(***************************************************************************)
(* The point machine: two point registers (self, other); every operation   *)
(* reads the registers and leaves its result in res; MovSelf/MovOther feed *)
(* a result back into a register, so that operations compose freely.       *)
(* Scalar multiplication is applied to freshly constructed points (the     *)
(* generator, infinity, lifted affine points), as in `&generator * &k`.    *)
(***************************************************************************)
AffinePoints(c) ==
    UNION {from_coordinate(x, y, c) : x \in FE(c), y \in FE(c)}

BasePoints(c) ==
    {generator(c), infinity} \cup {from_affine(a) : a \in AffinePoints(c)}

Init ==
    /\ curve \in Curves
    /\ self \in BasePoints(curve)
    /\ other \in BasePoints(curve)
    /\ op = "init"
    /\ res = infinity
    /\ n = <<>>
    /\ aff = None
    /\ fx = fe_zero
    /\ fy = fe_zero
    /\ sgn = "Positive"
    /\ k1 = 0
    /\ k2 = 0

PointOp(name, r) ==
    /\ op' = name
    /\ res' = r
    /\ UNCHANGED <<curve, self, other, n, aff, fx, fy, sgn, k1, k2>>

AddOrDouble == PointOp("add_or_double", add_or_double(self, other, curve))

AddOrDoubleA0 ==
    /\ curve.a0
    /\ PointOp("add_or_double_a0", add_or_double_a0(self, other, curve))

Double == PointOp("double", double(self, curve))

DoubleA0 ==
    /\ curve.a0
    /\ PointOp("double_a0", double_a0(self, curve))

Neg == PointOp("neg", neg(self, curve))

Sub == PointOp("sub", point_sub(self, other, curve))

Normalize ==
    /\ op' = "normalize"
    /\ self' = normalize(self, curve)
    /\ res' = self'
    /\ UNCHANGED <<curve, other, n, aff, fx, fy, sgn, k1, k2>>

AddDifferent == PointOp("add_different", add_different(self, other, curve))

\* A failed assertion leaves every register as it was.
BigintAddDifferent ==
    IF bigint_add_different_panics(self, other, curve)
    THEN /\ op' = "bigint_add_different_panic"
         /\ UNCHANGED <<curve, self, other, res, n, aff, fx, fy, sgn, k1, k2>>
    ELSE PointOp("bigint_add_different", bigint_add_different(self, other, curve))

ScaleBase ==
    /\ op = "init"
    /\ \E k \in Scalars(curve) : PointOp("mul", point_mul(self, k, curve))

MovSelf ==
    /\ op' = "mov"
    /\ self' = res
    /\ UNCHANGED <<curve, other, res, n, aff, fx, fy, sgn, k1, k2>>

MovOther ==
    /\ op' = "mov"
    /\ other' = res
    /\ UNCHANGED <<curve, self, res, n, aff, fx, fy, sgn, k1, k2>>

Next ==
    \/ AddOrDouble
    \/ AddOrDoubleA0
    \/ Double
    \/ DoubleA0
    \/ Neg
    \/ Sub
    \/ Normalize
    \/ ScaleBase
    \/ MovSelf
    \/ MovOther
    \/ AddDifferent
    \/ BigintAddDifferent

Spec == Init /\ [][Next]_vars

(***************************************************************************)
(* Properties of the point machine.                                        *)
(***************************************************************************)
AddOps == {"add_or_double", "add_or_double_a0"}

\* C1: for on-curve P (self) and Q (other) in any representative, infinity,
\* P equivalent to Q and Q equivalent to -P included, add_or_double(P, Q)
\* is a representative of the reference chord-and-tangent sum P + Q.
C1_AddOrDoubleIsGroupSum ==
    op = "add_or_double" =>
        InClass(res, RefAdd(RefNorm(self, curve), RefNorm(other, curve), curve), curve)

\* C1 witness: a doubling through the dispatch, on two distinct
\* non-normalized representatives of the same finite point.
C1_Witness ==
    /\ op = "add_or_double"
    /\ self # other
    /\ self.z \notin {0, 1}
    /\ other.z \notin {0, 1}
    /\ is_equivalent(self, other, curve)

C4_InfinityIsIdentity ==
    op \in AddOps =>
        /\ is_infinity(other, curve) =>
              /\ is_equivalent(res, self, curve)
              /\ InClass(res, RefNorm(self, curve), curve)
        /\ is_infinity(self, curve) =>
              /\ is_equivalent(res, other, curve)
              /\ InClass(res, RefNorm(other, curve), curve)

\* C4 witness: the a0 variant adds a non-canonical representative of
\* infinity on the left of a finite, non-normalized point.
C4_Witness ==
    /\ op = "add_or_double_a0"
    /\ is_infinity(self, curve)
    /\ self # infinity
    /\ other.z \notin {0, 1}
    /\ is_equivalent(res, other, curve)

\* C5: negation flips Y only; P - Q is P + (-Q); P + (-P) is at infinity;
\* and a sum of two finite points is at infinity only when the second is
\* equivalent to the negation of the first.
C5_NegationIsInverse ==
    /\ op = "neg" => res = Pt(self.x, (curve.p - self.y) % curve.p, self.z)
    /\ op = "sub" =>
          /\ res = point_add(self, neg(other, curve), curve)
          /\ is_equivalent(self, other, curve) => (res.z = 0 /\ OnCurve(res, curve))
    /\ op \in AddOps =>
          /\ is_equivalent(other, neg(self, curve), curve) =>
                (res.z = 0 /\ OnCurve(res, curve))
          /\ (self.z # 0 /\ other.z # 0 /\ res.z = 0) =>
                is_equivalent(other, neg(self, curve), curve)

\* C5 witness: a finite point is subtracted from another representative of
\* itself and the result is at infinity.
C5_Witness ==
    /\ op = "sub"
    /\ self.z \notin {0, 1}
    /\ self # other
    /\ other.z # 0
    /\ is_equivalent(self, other, curve)
    /\ res.z = 0

\* The triple P with every coordinate multiplied by l.
Rescale(P, l, c) == Pt((l * P.x) % c.p, (l * P.y) % c.p, (l * P.z) % c.p)

\* All the representatives (l X : l Y : l Z), l nonzero, of P.
Representatives(P, c) == {Rescale(P, l, c) : l \in 1 .. (c.p - 1)}

\* C7: is_equivalent (and the bigint PartialEq through to_affine) is
\* equality of group elements: true exactly when both points have the same
\* affine normal form or are both at infinity; invariant under scaling by
\* any nonzero lambda; false between a finite point and infinity;
\* reflexive, symmetric and transitive.
C7_EquivalenceIsGroupEquality ==
    /\ is_equivalent(self, other, curve)
          <=> (RefNorm(self, curve) = RefNorm(other, curve))
    /\ bigint_point_eq(self, other, curve)
          <=> (RefNorm(self, curve) = RefNorm(other, curve))
    /\ \A l \in 1 .. (curve.p - 1) :
          /\ is_equivalent(Rescale(self, l, curve), self, curve)
          /\ is_equivalent(self, other, curve)
                <=> is_equivalent(Rescale(self, l, curve), other, curve)
    /\ (self.z # 0 /\ other.z = 0) => ~is_equivalent(self, other, curve)
    /\ is_equivalent(self, self, curve)
    /\ is_equivalent(self, other, curve) <=> is_equivalent(other, self, curve)
    /\ \A T \in Representatives(self, curve) \cup Representatives(res, curve) :
          /\ (is_equivalent(self, other, curve) /\ is_equivalent(other, T, curve))
                => is_equivalent(self, T, curve)
          /\ (is_equivalent(self, T, curve) /\ is_equivalent(T, other, curve))
                => is_equivalent(self, other, curve)

\* C7 witness: the dispatch of add_or_double_a0 has compared two distinct
\* non-normalized representatives of one finite point, one a proper
\* rescaling of the other.
C7_Witness ==
    /\ op = "add_or_double_a0"
    /\ self.z \notin {0, 1}
    /\ other.z \notin {0, 1}
    /\ \E l \in 2 .. (curve.p - 1) : other = Rescale(self, l, curve)
    /\ is_equivalent(self, other, curve)
    /\ res.z # 0

(***************************************************************************)
(* Scalar multiplication as a function of its inputs: the point is any     *)
(* on-curve triple, the byte string any string of at most MaxScalarBytes   *)
(* bytes drawn from ByteVals, the scalars any residues modulo the order.   *)
(***************************************************************************)
MaxScalarBytes == 2

ByteVals == {0, 1, 19, 21, 255}

RECURSIVE ByteStringsOfLen(_)
ByteStringsOfLen(l) ==
    IF l = 0 THEN {<<>>}
    ELSE {Append(w, b) : w \in ByteStringsOfLen(l - 1), b \in ByteVals}

ByteStrings == UNION {ByteStringsOfLen(l) : l \in 0 .. MaxScalarBytes}

InitScale ==
    /\ curve \in Curves
    /\ self \in OnCurveTriples(curve)
    /\ other = infinity
    /\ op = "init"
    /\ res = infinity
    /\ aff = None
    /\ fx = fe_zero
    /\ fy = fe_zero
    /\ sgn = "Positive"
    /\ \/ n \in ByteStrings /\ k1 = 0 /\ k2 = 0
       \/ n = <<>> /\ k1 \in Scalars(curve) /\ k2 \in Scalars(curve)

\* Each operation is applied to the inputs drawn for it: scale to the byte
\* strings, Point * Scalar to the scalars.
Scale ==
    /\ op = "init"
    /\ k1 = 0 /\ k2 = 0
    /\ PointOp("scale", scale(self, n, curve))

ScaleA0 ==
    /\ op = "init"
    /\ k1 = 0 /\ k2 = 0
    /\ curve.a0
    /\ PointOp("scale_a0", scale_a0(self, n, curve))

Mul ==
    /\ op = "init"
    /\ n = <<>> /\ k2 = 0
    /\ PointOp("mul", point_mul(self, k1, curve))

\* The two sides of (k1 + k2) * G == k1 * G + k2 * G, left in res and other.
MulSum ==
    /\ op = "init"
    /\ n = <<>>
    /\ op' = "mul_sum"
    /\ res' = point_mul(self, scalar_add(k1, k2, curve), curve)
    /\ other' = point_add(point_mul(self, k1, curve), point_mul(self, k2, curve), curve)
    /\ UNCHANGED <<curve, self, n, aff, fx, fy, sgn, k1, k2>>

NextScale ==
    \/ Scale
    \/ ScaleA0
    \/ Mul
    \/ MulSum

SpecScale == InitScale /\ [][NextScale]_vars

(***************************************************************************)
(* The double-and-add loop of scale, one iteration at a time.  other holds *)
(* the running multiple a, res the accumulator q, k1 the index of the byte *)
(* being read (Len(n) down to 1, 0 once the bytes are exhausted) and k2    *)
(* the bit index i within it.                                              *)
(***************************************************************************)
LoopOps == {"loop", "loop_a0"}

\* The input points of the loop: the representatives of infinity, the
\* normalized points and one non-normalized representative of each.
LoopPoints(c) == {P \in OnCurveTriples(c) : P.z \in {0, 1, 3}}

InitLoop ==
    /\ curve \in Curves
    /\ self \in LoopPoints(curve)
    /\ n \in ByteStrings
    /\ other = infinity
    /\ op = "init"
    /\ res = infinity
    /\ aff = None
    /\ fx = fe_zero
    /\ fy = fe_zero
    /\ sgn = "Positive"
    /\ k1 = 0
    /\ k2 = 0

\* let mut a = self.clone(); let mut q = Point::infinity();
LoopEnter ==
    /\ op = "init"
    /\ \/ op' = "loop"
       \/ curve.a0 /\ op' = "loop_a0"
    /\ other' = self
    /\ res' = infinity
    /\ k1' = Len(n)
    /\ k2' = 0
    /\ UNCHANGED <<curve, self, n, aff, fx, fy, sgn>>

\* One iteration of `for digit in n.iter().rev() { for i in 0..8 { .. } }`.
LoopStep ==
    /\ op \in LoopOps
    /\ k1 >= 1
    /\ LET st == daa_step(other, res, n[k1], k2, op = "loop_a0", curve)
       IN  other' = st[1] /\ res' = st[2]
    /\ k2' = (k2 + 1) % 8
    /\ k1' = IF k2 = 7 THEN k1 - 1 ELSE k1
    /\ UNCHANGED <<curve, op, self, n, aff, fx, fy, sgn>>

\* The bytes are exhausted: q is returned.
LoopReturn ==
    /\ op \in LoopOps
    /\ k1 = 0
    /\ op' = (IF op = "loop_a0" THEN "scale_a0" ELSE "scale")
    /\ UNCHANGED <<curve, self, other, n, res, aff, fx, fy, sgn, k1, k2>>

NextLoop ==
    \/ LoopEnter
    \/ LoopStep
    \/ LoopReturn

SpecLoop == InitLoop /\ [][NextLoop]_vars

\* The number of bits the loop has consumed.
BitsDone == (Len(n) - k1) * 8 + k2

(***************************************************************************)
(* The addition and doubling formulas as functions of a pair of inputs:    *)
(* self and other are any two on-curve triples (every representative,      *)
(* infinity included); for the scale comparison the byte string is drawn   *)
(* as well.  res holds the result of the formula named by op, aff the      *)
(* result of the routine it is compared with.                              *)
(***************************************************************************)
InitPair ==
    /\ curve \in Curves
    /\ self \in OnCurveTriples(curve)
    /\ op = "init"
    /\ res = infinity
    /\ aff = None
    /\ fx = fe_zero
    /\ fy = fe_zero
    /\ sgn = "Positive"
    /\ k1 = 0
    /\ k2 = 0
    /\ \/ other \in OnCurveTriples(curve) /\ n = <<>>
       \/ other = infinity /\ curve.a0 /\ n \in ByteStrings

PairOp(name, r, g) ==
    /\ op = "init"
    /\ op' = name
    /\ res' = r
    /\ aff' = Some(g)
    /\ UNCHANGED <<curve, self, other, n, fx, fy, sgn, k1, k2>>

PairAddDifferent ==
    /\ n = <<>>
    /\ PairOp("add_different", add_different(self, other, curve),
              add_or_double(self, other, curve))

PairAddDifferentA0 ==
    /\ n = <<>>
    /\ curve.a0
    /\ PairOp("add_different_a0", add_different_a0(self, other, curve),
              add_different(self, other, curve))

PairDoubleA0 ==
    /\ n = <<>>
    /\ curve.a0
    /\ PairOp("double_a0", double_a0(self, curve), double(self, curve))

PairAddOrDoubleA0 ==
    /\ n = <<>>
    /\ curve.a0
    /\ PairOp("add_or_double_a0", add_or_double_a0(self, other, curve),
              add_or_double(self, other, curve))

PairScaleA0 ==
    /\ curve.a0
    /\ other = infinity
    /\ PairOp("scale_a0", scale_a0(self, n, curve), scale(self, n, curve))

\* normalize() rewrites self in place; res keeps the point as it was.  A
\* panic leaves the point as it was.
NormalizeInPlace(name, panics, r) ==
    /\ op = "init"
    /\ n = <<>>
    /\ res' = self
    /\ IF panics
       THEN op' = name \o "_panic" /\ self' = self
       ELSE op' = name /\ self' = r
    /\ UNCHANGED <<curve, other, n, aff, fx, fy, sgn, k1, k2>>

PairNormalize ==
    \/ NormalizeInPlace("normalize", FALSE, normalize(self, curve))
    \/ NormalizeInPlace("bigint_normalize", bigint_normalize_panics(self, curve),
                        bigint_normalize(self, curve))
    \/ /\ curve = CurveK1
       /\ NormalizeInPlace("k1_normalize", k1_normalize_panics(self),
                           k1_normalize(self, curve))

NextPair ==
    \/ PairAddDifferent
    \/ PairAddDifferentA0
    \/ PairDoubleA0
    \/ PairAddOrDoubleA0
    \/ PairScaleA0
    \/ PairNormalize

SpecPair == InitPair /\ [][NextPair]_vars

(***************************************************************************)
(* The Tonelli-Shanks loops, one iteration at a time.  curve holds the     *)
(* field: for FieldElement::sqrt of p224r1 a prime p = 2^a - 2^b + 1 with  *)
(* its hardcoded S (s), the bit length of Q = 2^qbits - 1 and the          *)
(* non-residue Z (z); for helper::tonelli_shanks an odd prime only (q, s   *)
(* and z are computed by the routine and kept in other).  fx is the input  *)
(* n, self the loop variables r, t, c and tt, k1 is m, k2 is i, and fy     *)
(* counts the completed iterations of the outer loop.                      *)
(***************************************************************************)
P224Fields ==
    {[kind |-> "p224r1", p |-> 13, s |-> 2, qbits |-> 2, z |-> 11],
     [kind |-> "p224r1", p |-> 193, s |-> 6, qbits |-> 2, z |-> 11]}

HelperPrimes == {3, 7, 13, 17, 41, 97, 193}

HelperFields ==
    {[kind |-> "helper", p |-> pp, s |-> 0, qbits |-> 0, z |-> 0] : pp \in HelperPrimes}

LoopVars(r, t, cc, tt) == [r |-> r, t |-> t, c |-> cc, tt |-> tt]

Computed(q, sv, z) == [q |-> q, s |-> sv, z |-> z]

InitSqrt ==
    /\ curve \in P224Fields \cup HelperFields
    /\ fx \in 0 .. (curve.p - 1)
    /\ op = "init"
    /\ self = LoopVars(0, 0, 0, 0)
    /\ other = Computed(0, 0, 0)
    /\ res = infinity
    /\ aff = None
    /\ n = <<>>
    /\ fy = 0
    /\ sgn = "Positive"
    /\ k1 = 0
    /\ k2 = 0

\* is_quadratic_residue: self^(2^qbits - 1) squared s - 1 times is one.
is_quadratic_residue_in(x, f) ==
    fe_ct_eq(square_rep(square_add_rep(x, fe_one, f.qbits, f), f.s - 1, f), fe_one, f)

\* Variant of the end of an outer iteration that leaves m as it was.
p224r1_body_keeps_m(st, m, i, f) ==
    LET e  == m - i - 1
        b  == IF e = 0 THEN st.c ELSE square_rep(st.c, e, f)
        b2 == fe_square(b, f)
    IN  <<LoopVars(fe_mul(st.r, b, f), fe_mul(st.t, b2, f), b2, st.tt), m>>

\* The end of an outer iteration of sqrt: e, b, b2, then r, t, c and m = i.
p224r1_body(st, m, i, f) ==
    LET e  == m - i - 1
        b  == IF e = 0 THEN st.c ELSE square_rep(st.c, e, f)
        b2 == fe_square(b, f)
    IN  <<LoopVars(fe_mul(st.r, b, f), fe_mul(st.t, b2, f), b2, st.tt), i>>

\* The end of an outer iteration of tonelli_shanks.
ts_body(st, m, i, md) ==
    LET exponent == modpow(2, m - i - 1, md - 1)
        b  == modpow(st.c, exponent, md)
        b2 == (b * b) % md
    IN  <<LoopVars((st.r * b) % md, (st.t * b2) % md, b2, st.tt), i>>

\* sqrt of p224r1 up to the outer loop: the residue test, then m, c, t, r.
P224Enter ==
    /\ op = "init"
    /\ curve.kind = "p224r1"
    /\ IF ~is_quadratic_residue_in(fx, curve)
       THEN op' = "p224r1_absent" /\ UNCHANGED <<self, k1>>
       ELSE /\ op' = "p224r1_outer"
            /\ k1' = curve.s
            /\ self' = LoopVars(square_rep(fx, curve.qbits - 1, curve),
                                square_add_rep(fx, fe_one, curve.qbits, curve),
                                square_add_rep(curve.z, fe_one, curve.qbits, curve),
                                0)
    /\ UNCHANGED <<curve, other, n, res, aff, fx, fy, sgn, k2>>

\* while t != one { let mut tt = t.clone(); let mut i = 0; ...
P224Outer ==
    /\ op = "p224r1_outer"
    /\ IF self.t = fe_one
       THEN /\ op' = "p224r1_return"
            /\ aff' = {r \in {self.r} : fe_ct_eq(fe_mul(r, r, curve), fx, curve)}
            /\ UNCHANGED <<self, k2>>
       ELSE /\ op' = "p224r1_inner"
            /\ self' = [self EXCEPT !.tt = self.t]
            /\ k2' = 0
            /\ aff' = aff
    /\ UNCHANGED <<curve, other, n, res, fx, fy, sgn, k1>>

\* while tt != one { tt = tt.square(); i += 1; if i == m { return absent } }
\* and, once tt is one, the rest of the outer iteration.
P224Inner ==
    /\ op = "p224r1_inner"
    /\ IF self.tt # fe_one
       THEN /\ self' = [self EXCEPT !.tt = fe_square(self.tt, curve)]
            /\ k2' = k2 + 1
            /\ op' = (IF k2 + 1 = k1 THEN "p224r1_absent" ELSE "p224r1_inner")
            /\ UNCHANGED <<k1, fy>>
       ELSE /\ LET nx == p224r1_body(self, k1, k2, curve)
               IN  self' = nx[1] /\ k1' = nx[2]
            /\ fy' = fy + 1
            /\ op' = "p224r1_outer"
            /\ k2' = k2
    /\ UNCHANGED <<curve, other, n, res, aff, fx, sgn>>

\* tonelli_shanks up to the split of p - 1.
TsEnter ==
    /\ op = "init"
    /\ curve.kind = "helper"
    /\ IF legendre_symbol_panics(fx, curve.p)
       THEN op' = "ts_panic" /\ other' = other
       ELSE IF legendre_symbol(fx, curve.p) # "One"
       THEN op' = "ts_none" /\ other' = other
       ELSE op' = "ts_split" /\ other' = Computed(curve.p - 1, 0, 0)
    /\ UNCHANGED <<curve, self, n, res, aff, fx, fy, sgn, k1, k2>>

\* while (&q & 1).is_zero() { s += 1; q >>= 1 }, then the case s == 1.
TsSplit ==
    /\ op = "ts_split"
    /\ IF other.q % 2 = 0
       THEN /\ other' = Computed(other.q \div 2, other.s + 1, 0)
            /\ op' = op
            /\ aff' = aff
       ELSE IF other.s = 1
       THEN /\ op' = "ts_return"
            /\ aff' = Some(modpow(fx, (curve.p + 1) \div 4, curve.p))
            /\ other' = other
       ELSE /\ op' = "ts_search"
            /\ other' = Computed(other.q, other.s, 2)
            /\ aff' = aff
    /\ UNCHANGED <<curve, self, n, res, fx, fy, sgn, k1, k2>>

\* while z.modpow((p - 1) / 2, p) != p - 1 { z += 1 }, then c, r, t and m.
TsSearch ==
    /\ op = "ts_search"
    /\ IF modpow(other.z, (curve.p - 1) \div 2, curve.p) # curve.p - 1
       THEN /\ other' = Computed(other.q, other.s, other.z + 1)
            /\ op' = op
            /\ UNCHANGED <<self, k1>>
       ELSE /\ op' = "ts_outer"
            /\ self' = LoopVars(modpow(fx, (other.q + 1) \div 2, curve.p),
                                modpow(fx, other.q, curve.p),
                                modpow(other.z, other.q, curve.p),
                                0)
            /\ k1' = other.s
            /\ other' = other
    /\ UNCHANGED <<curve, n, res, aff, fx, fy, sgn, k2>>

TsOuter ==
    /\ op = "ts_outer"
    /\ IF self.t = 1
       THEN /\ op' = "ts_return"
            /\ aff' = Some(self.r)
            /\ UNCHANGED <<self, k2>>
       ELSE /\ op' = "ts_inner"
            /\ self' = [self EXCEPT !.tt = self.t]
            /\ k2' = 0
            /\ aff' = aff
    /\ UNCHANGED <<curve, other, n, res, fx, fy, sgn, k1>>

TsInner ==
    /\ op = "ts_inner"
    /\ IF self.tt # 1
       THEN /\ self' = [self EXCEPT !.tt = (self.tt * self.tt) % curve.p]
            /\ k2' = k2 + 1
            /\ op' = (IF k2 + 1 = k1 THEN "ts_none" ELSE "ts_inner")
            /\ UNCHANGED <<k1, fy>>
       ELSE /\ LET nx == ts_body(self, k1, k2, curve.p)
               IN  self' = nx[1] /\ k1' = nx[2]
            /\ fy' = fy + 1
            /\ op' = "ts_outer"
            /\ k2' = k2
    /\ UNCHANGED <<curve, other, n, res, aff, fx, sgn>>

NextSqrt ==
    \/ P224Enter
    \/ P224Outer
    \/ P224Inner
    \/ TsEnter
    \/ TsSplit
    \/ TsSearch
    \/ TsOuter
    \/ TsInner

SpecSqrt == InitSqrt /\ [][NextSqrt]_vars

\* The loops under the scheduling of a sequential program: a step that can
\* be taken is taken.
FairSpecSqrt == SpecSqrt /\ WF_vars(NextSqrt)

SqrtReturned == {"p224r1_absent", "p224r1_return", "ts_none", "ts_return", "ts_panic"}

\* The double-and-add loop meets the case q == a: some set bit i of k has
\* [k mod 2^i]P equal to [2^i]P, with both finite.
AccumulatorMeetsMultiple(k, P, c) ==
    \E i \in 1 .. (8 * MaxScalarBytes - 1) :
        /\ (k \div (2 ^ i)) % 2 = 1
        /\ k % (2 ^ i) # 0
        /\ RefMul(2 ^ i, P, c).z # 0
        /\ RefMul(k % (2 ^ i), P, c) = RefMul(2 ^ i, P, c)

\* C2: scale(n) returns a representative of [k]P, k the big-endian integer
\* of the byte string n, and Point * Scalar returns [k]P for the scalar k;
\* k = 0 gives infinity, k = 1 gives P, also for k at or above the order.
C2_ScaleIsScalarMultiple ==
    /\ op \in {"scale", "scale_a0"} =>
          /\ InClass(res, RefMul(BytesToInt(n), RefNorm(self, curve), curve), curve)
          /\ BytesToInt(n) = 0 => res.z = 0
          /\ BytesToInt(n) = 1 => is_equivalent(res, self, curve)
    /\ op = "mul" =>
          InClass(res, RefMul(k1, RefNorm(self, curve), curve), curve)

\* C2 witness: a two-byte scalar at or above the group order, on a finite
\* non-normalized point, whose loop meets an accumulator equal to the
\* running multiple.
C2_Witness ==
    /\ op = "scale"
    /\ Len(n) = 2
    /\ n[1] # 0
    /\ BytesToInt(n) >= curve.order
    /\ self.z \notin {0, 1}
    /\ AccumulatorMeetsMultiple(BytesToInt(n), RefNorm(self, curve), curve)
    /\ res.z # 0

\* C6: (k1 + k2) * G is equal to k1 * G + k2 * G for all scalars k1, k2
\* (added modulo the group order) and every on-curve point G.
C6_ScalarMulIsAdditive ==
    op = "mul_sum" =>
        /\ OnCurve(res, curve)
        /\ OnCurve(other, curve)
        /\ is_equivalent(res, other, curve)
        /\ InClass(other, RefMul((k1 + k2) % curve.order, RefNorm(self, curve), curve), curve)

\* C6 witness: two nonzero scalars whose sum wraps around the group order,
\* on a finite non-normalized point.
C6_Witness ==
    /\ op = "mul_sum"
    /\ k1 > 0
    /\ k2 > 0
    /\ k1 + k2 > curve.order
    /\ self.z \notin {0, 1}
    /\ res.z # 0
    /\ is_equivalent(res, other, curve)

(***************************************************************************)
(* Affine conversions as functions of their inputs: the projective point   *)
(* is any on-curve triple, the coordinates any pair of field elements, the *)
(* sign either value.  CurveR2 adds a curve of even order, as the cofactor *)
(* 4 curves of the bigint backend, where x^3 + A x + B has a root.         *)
(***************************************************************************)
CurveR2 ==
    [name |-> "r2", p |-> 7, a |-> 4, b |-> 3, b3 |-> 2,
     gx |-> 1, gy |-> 1, order |-> 6, size_bytes |-> 1, a0 |-> FALSE]

AffineCurves == Curves \cup {CurveR2}

InitAffine ==
    /\ curve \in AffineCurves
    /\ other = infinity
    /\ op = "init"
    /\ res = infinity
    /\ aff = None
    /\ n = <<>>
    /\ k1 = 0
    /\ k2 = 0
    /\ \/ self \in OnCurveTriples(curve) /\ fx = fe_zero /\ fy = fe_zero /\ sgn = "Positive"
       \/ self = infinity /\ fx \in FE(curve) /\ fy \in FE(curve) /\ sgn \in Signs

AffineOp(name, r) ==
    /\ op' = name
    /\ aff' = r
    /\ UNCHANGED <<curve, self, other, res, n, fx, fy, sgn, k1, k2>>

ToAffine == AffineOp("to_affine", to_affine(self, curve))

FromCoordinate == AffineOp("from_coordinate", from_coordinate(fx, fy, curve))

Decompress == AffineOp("decompress", decompress(fx, sgn, curve))

BigintDecompress ==
    AffineOp("bigint_decompress", bigint_decompress(fx, sgn = "Negative", curve))

FromAffine ==
    /\ op \in {"to_affine", "from_coordinate"}
    /\ \E a \in aff : self' = from_affine(a)
    /\ op' = "from_affine"
    /\ UNCHANGED <<curve, other, res, n, aff, fx, fy, sgn, k1, k2>>

\* compress followed by decompress on the point from_coordinate accepted.
RoundTrip ==
    /\ op = "from_coordinate"
    /\ \E q \in aff :
          /\ fx' = compress(q)[1]
          /\ sgn' = compress(q)[2]
          /\ aff' = decompress(compress(q)[1], compress(q)[2], curve)
    /\ op' = "round_trip"
    /\ UNCHANGED <<curve, self, other, res, n, fy, k1, k2>>

BigintRoundTrip ==
    /\ op = "from_coordinate"
    /\ \E q \in aff :
          /\ fx' = bigint_compress(q, curve)[1]
          /\ sgn' = (IF bigint_compress(q, curve)[2] THEN "Negative" ELSE "Positive")
          /\ aff' = bigint_decompress(bigint_compress(q, curve)[1],
                                      bigint_compress(q, curve)[2], curve)
    /\ op' = "bigint_round_trip"
    /\ UNCHANGED <<curve, self, other, res, n, fy, k1, k2>>

\* The superseded secp256k1 module, on its generator.
K1RoundTrip ==
    /\ op = "init"
    /\ curve = CurveK1
    /\ LET g == Aff(curve.gx, curve.gy)
       IN  /\ fx' = k1_compress(g)[1]
           /\ fy' = g.y
           /\ sgn' = (IF k1_compress(g)[2] THEN "Negative" ELSE "Positive")
           /\ aff' = k1_decompress(k1_compress(g)[1], k1_compress(g)[2], curve)
    /\ op' = "k1_round_trip"
    /\ UNCHANGED <<curve, self, other, res, n, k1, k2>>

\* inverse() of a field element or scalar, zero included: the per-curve
\* chains assert a nonzero argument, the superseded Scalar does not.
Inverse ==
    /\ op = "init"
    /\ \/ IF inverse_panics(fx)
          THEN AffineOp("inverse_panic", None)
          ELSE AffineOp("inverse", Some(inverse(fx, curve)))
       \/ /\ curve \in Curves
          /\ IF inverse_panics(fx)
             THEN AffineOp("scalar_inverse_panic", None)
             ELSE AffineOp("scalar_inverse", Some(inverse(fx, ScalarField(curve))))
       \/ /\ curve = CurveK1
          /\ AffineOp("gm_inverse", Some(gm_inverse(fx, ScalarField(curve))))

\* Affine double of the point from_coordinate accepted.
AffineDouble ==
    /\ op = "from_coordinate"
    /\ \E q \in aff :
          IF affine_double_panics(q, curve)
          THEN AffineOp("affine_double_panic", None)
          ELSE AffineOp("affine_double", Some(affine_double(q, curve)))

\* Affine add_different of that point and any affine point of the curve.
AffineAddDifferent ==
    /\ op = "from_coordinate"
    /\ \E q \in aff : \E T \in OnCurveTriples(curve) :
          /\ T.z = 1
          /\ other' = T
          /\ IF affine_add_different_panics(q, Aff(T.x, T.y), curve)
             THEN op' = "affine_add_different_panic" /\ aff' = None
             ELSE /\ op' = "affine_add_different"
                  /\ aff' = Some(affine_add_different(q, Aff(T.x, T.y), curve))
    /\ UNCHANGED <<curve, self, res, n, fx, fy, sgn, k1, k2>>

\* The sign of a field element and of its negation: sign() of the fiat
\* elements, high_bit_set() of the bigint elements and of the superseded
\* secp256k1 FieldElement.
SignOf ==
    /\ op = "init"
    /\ \/ AffineOp("sign", Some(<<sign(fx), sign(fe_neg(fx, curve))>>))
       \/ AffineOp("high_bit_set",
                   Some(<<high_bit_set(fx, curve),
                          high_bit_set(bigint_neg(fx, curve), curve)>>))
       \/ /\ curve = CurveK1
          /\ AffineOp("fe_high_bit_set",
                      Some(<<fe_high_bit_set_k1(fx),
                             fe_high_bit_set_k1(fe_neg(fx, curve))>>))

NextAffine ==
    \/ ToAffine
    \/ FromCoordinate
    \/ Decompress
    \/ BigintDecompress
    \/ FromAffine
    \/ RoundTrip
    \/ BigintRoundTrip
    \/ K1RoundTrip
    \/ Inverse
    \/ AffineDouble
    \/ AffineAddDifferent
    \/ SignOf

SpecAffine == InitAffine /\ [][NextAffine]_vars

\* C8: to_affine returns nothing exactly when Z == 0, otherwise
\* (X/Z, Y/Z), with (X, Y) unchanged when Z == 1; every representative of
\* the point gives the same affine point; and to_affine(from_affine(P)) is
\* P for every affine point P.
C8_ToAffine ==
    /\ op = "to_affine" =>
          /\ aff = None <=> self.z = 0
          /\ self.z # 0 =>
                aff = Some(Aff((self.x * RefInv(self.z, curve)) % curve.p,
                               (self.y * RefInv(self.z, curve)) % curve.p))
          /\ self.z = 1 => aff = Some(Aff(self.x, self.y))
          /\ \A T \in Representatives(self, curve) : to_affine(T, curve) = aff
    /\ op = "from_affine" => to_affine(self, curve) = aff

\* C8 witness: a finite non-normalized point has been converted through
\* the inverse of Z, to coordinates that differ from X and Y.
C8_Witness ==
    /\ op = "to_affine"
    /\ self.z \notin {0, 1}
    /\ \E q \in aff : q.x # self.x /\ q.y # self.y
    /\ \E T \in Representatives(self, curve) : T.z = 1 /\ to_affine(T, curve) = aff

\* C9: from_coordinate(x, y) returns the point (x, y) if and only if
\* y^2 = x^3 + A x + B in the field, and nothing otherwise.
C9_FromCoordinate ==
    op = "from_coordinate" =>
        aff = (IF OnCurveAffine(fx, fy, curve) THEN Some(Aff(fx, fy)) ELSE None)

\* C9 witness: an accepted pair on the A # 0 curve with nonzero x.
C9_Witness ==
    /\ op = "from_coordinate"
    /\ curve.a # 0
    /\ fx # 0
    /\ aff = Some(Aff(fx, fy))

HasSqrt(v, c) == \E y \in FE(c) : (y * y) % c.p = v

CurveRhs(x, c) == (x * x * x + c.a * x + c.b) % c.p

\* C10: decompress(x, sign) returns nothing exactly when x^3 + A x + B has
\* no square root; otherwise an on-curve point (x, y) whose y has the
\* requested sign (for the bigint backend, the requested high bit), for
\* every x and both signs, a zero square root included.
C10_DecompressContract ==
    /\ op = "decompress" =>
          /\ aff = None <=> ~HasSqrt(CurveRhs(fx, curve), curve)
          /\ \A q \in aff :
                /\ q.x = fx
                /\ OnCurveAffine(q.x, q.y, curve)
                /\ sign(q.y) = sgn
    /\ op = "bigint_decompress" =>
          /\ aff = None <=> ~HasSqrt(CurveRhs(fx, curve), curve)
          /\ \A q \in aff :
                /\ q.x = fx
                /\ OnCurveAffine(q.x, q.y, curve)
                /\ high_bit_set(q.y, curve) = (sgn = "Negative")

\* C10 witness: the bigint decompress has been given an x whose
\* x^3 + A x + B has no square root and has returned a point off the curve.
C10_Witness ==
    /\ op = "bigint_decompress"
    /\ ~HasSqrt(CurveRhs(fx, curve), curve)
    /\ \E q \in aff : q.x = fx /\ ~OnCurveAffine(q.x, q.y, curve)

\* C11: compression round-trips: for every on-curve affine point P, with
\* (x, s) = compress(P), decompress(x, s) returns P, in the generic affine
\* layer, in the bigint backend and in the superseded secp256k1 module.
C11_CompressRoundTrip ==
    op \in {"round_trip", "bigint_round_trip", "k1_round_trip"} =>
        aff = Some(Aff(fx, fy))

\* The same round trip, for the generic affine layer and the bigint
\* backend only.
C11_GenericAndBigintRoundTrip ==
    op \in {"round_trip", "bigint_round_trip"} => aff = Some(Aff(fx, fy))

\* C11 witness: the superseded secp256k1 module has compressed its
\* generator and decompress has returned nothing.
C11_Witness ==
    /\ op = "k1_round_trip"
    /\ OnCurveAffine(fx, fy, curve)
    /\ aff = None

\* Round trips of a point with a Negative y, and of a point with y = 0.
C11_RoundTripWitness ==
    /\ op \in {"round_trip", "bigint_round_trip"}
    /\ aff = Some(Aff(fx, fy))
    /\ fy = 0 \/ sgn = "Negative"

(***************************************************************************)
(* Field elements and scalars on their own: the element types of the fiat  *)
(* curves, of the bigint backend and of the superseded secp256k1 module.   *)
(***************************************************************************)
Curve224 ==
    [name |-> "p224r1", p |-> 13, a |-> 10, b |-> 1, b3 |-> 3,
     gx |-> 1, gy |-> 5, order |-> 19, size_bytes |-> 1, a0 |-> FALSE]

FieldCurves == Curves \cup {Curve224}

Elements == 0 .. 18

FieldBytes == (0 .. 20) \cup {254, 255}

InitField ==
    /\ curve \in FieldCurves
    /\ op = "init"
    /\ self = infinity
    /\ other = infinity
    /\ res = infinity
    /\ aff = None
    /\ sgn = "Positive"
    /\ k1 = 0
    /\ k2 = 0
    /\ \/ fx \in Elements /\ fy \in Elements /\ n = <<>>
       \/ fx = 0 /\ fy = 0 /\ \E b \in FieldBytes : n = <<b>>

FieldOp(name, r, s) ==
    /\ op = "init"
    /\ op' = name
    /\ aff' = r
    /\ sgn' = s
    /\ UNCHANGED <<curve, self, other, res, n, fx, fy, k1, k2>>

\* sqrt of a field element or scalar, by each implementation.
FieldSqrt ==
    /\ n = <<>>
    /\ \/ /\ curve.p % 4 = 3 /\ fx < curve.p
          /\ FieldOp("sqrt", sqrt(fx, curve), "ok")
       \/ /\ curve.p % 8 = 5 /\ fx < curve.p
          /\ FieldOp("sqrt_p224k1", sqrt_p224k1(fx, curve), "ok")
       \/ /\ curve = Curve224 /\ fx < curve.p
          /\ FieldOp("sqrt_p224r1", sqrt_p224r1(fx, curve), "ok")
       \/ /\ fx < curve.p
          /\ FieldOp("bigint_sqrt", bigint_sqrt(fx, curve), "ok")
       \/ /\ fx < curve.order
          /\ FieldOp("bigint_scalar_sqrt", bigint_scalar_sqrt(fx, curve), "ok")

\* from_bytes of a byte string, by each implementation.
FromBytes ==
    /\ n # <<>>
    /\ \/ FieldOp("from_bytes", from_bytes(n, curve.p), "ok")
       \/ FieldOp("scalar_from_bytes", from_bytes(n, curve.order), "ok")
       \/ FieldOp("bigint_from_bytes", bigint_from_bytes(n, curve.p), "ok")
       \/ /\ curve = CurveK1
          /\ FieldOp("gm_from_bytes", gm_from_bytes(n, curve.order), "ok")

\* The values one public operation yields from the elements x and y.
FiatObtainable(x, y, c) ==
    {x, fe_add(x, y, c), fe_sub(x, y, c), fe_mul(x, y, c), fe_neg(x, c)}
        \cup (IF inverse_panics(x) THEN {} ELSE {inverse(x, c)})

BigintObtainable(x, y, c) ==
    {x, bigint_add(x, y, c), bigint_sub(x, y, c), bigint_mul(x, y, c), bigint_neg(x, c)}
        \cup bigint_inverse(x, c)

FieldOpK(name, r, v, w) ==
    /\ op = "init"
    /\ op' = name
    /\ aff' = r
    /\ k1' = v
    /\ k2' = w
    /\ UNCHANGED <<curve, self, other, res, n, fx, fy, sgn>>

\* from_bytes(to_bytes(v)) of a value v obtained by a public operation.
BytesOfValue ==
    /\ n = <<>>
    /\ \/ /\ fx < curve.p /\ fy < curve.p
          /\ \E v \in FiatObtainable(fx, fy, curve) :
                FieldOpK("fiat_value_round_trip",
                         from_bytes(to_bytes(v, curve.size_bytes), curve.p), v, 0)
       \/ /\ fx < curve.p /\ fy < curve.p
          /\ \E v \in BigintObtainable(fx, fy, curve) :
                FieldOpK("bigint_value_round_trip",
                         bigint_from_bytes(bigint_to_bytes(v, curve.size_bytes), curve.p), v, 0)
       \/ /\ curve = CurveK1 /\ fx < curve.order /\ fy < curve.order
          /\ \E v \in FiatObtainable(fx, fy, ScalarField(curve)) :
                FieldOpK("gm_value_round_trip",
                         gm_from_bytes(to_bytes(v, curve.size_bytes), curve.order), v, 0)

\* to_bytes(from_bytes(b)) of a byte string b that from_bytes accepts.
ValueOfBytes ==
    /\ n # <<>>
    /\ \/ /\ from_bytes(n, curve.p) # None
          /\ FieldOp("fiat_bytes_round_trip",
                     {to_bytes(v, curve.size_bytes) : v \in from_bytes(n, curve.p)}, "ok")
       \/ /\ bigint_from_bytes(n, curve.p) # None
          /\ FieldOp("bigint_bytes_round_trip",
                     {bigint_to_bytes(v, curve.size_bytes) : v \in bigint_from_bytes(n, curve.p)},
                     "ok")
       \/ /\ curve = CurveK1
          /\ gm_from_bytes(n, curve.order) # None
          /\ FieldOp("gm_bytes_round_trip",
                     {to_bytes(v, curve.size_bytes) : v \in gm_from_bytes(n, curve.order)}, "ok")

\* a * a.inverse() by an implementation whose inverse asserts a nonzero
\* argument; a failed assertion leaves the element with no result.
FiatInverseProduct(name, a, c) ==
    IF inverse_panics(a)
    THEN FieldOpK(name \o "_panic", None, a, 0)
    ELSE FieldOpK(name, Some(inverse(a, c)), a, fe_mul(a, inverse(a, c), c))

\* a * a.inverse(): the inverse of an element and its product with it.
InverseProduct ==
    /\ n = <<>>
    /\ \/ /\ fx < curve.p
          /\ FiatInverseProduct("inverse", fx, curve)
       \/ /\ fx < curve.order
          /\ FiatInverseProduct("scalar_inverse", fx, ScalarField(curve))
       \/ /\ curve = CurveK1 /\ fx < curve.order
          /\ FieldOpK("gm_inverse", Some(gm_inverse(fx, ScalarField(curve))), fx,
                      fe_mul(fx, gm_inverse(fx, ScalarField(curve)), ScalarField(curve)))
       \/ /\ fx < curve.p /\ fy < curve.p
          /\ \E a \in BigintObtainable(fx, fy, curve) :
                IF ~bigint_is_zero(a) /\ mod_inverse_panics(a, curve.p)
                THEN FieldOpK("bigint_inverse_panic", None, a, 0)
                ELSE FieldOpK("bigint_inverse", bigint_inverse(a, curve), a,
                              IF bigint_is_zero(a) THEN 0
                              ELSE bigint_mul(a, mod_inverse(a, curve.p), curve))

\* The values one arithmetic operation yields from the elements x and y
\* (add, sub, mul, neg, inverse, double, power), and the curve constants.
FiatArith(x, y, c) ==
    FiatObtainable(x, y, c) \cup {fe_double(x, c), fe_pow(x, y, c)}

BigintArith(x, y, c) ==
    BigintObtainable(x, y, c) \cup {bigint_double(x, c), bigint_power(x, y, c)}

\* One arithmetic result (or curve constant), with the negation of zero.
Arith ==
    /\ n = <<>>
    /\ \/ /\ fx < curve.p /\ fy < curve.p
          /\ \E v \in FiatArith(fx, fy, curve) \cup {curve.a, curve.b, curve.b3} :
                FieldOpK("fiat_arith", None, v, fe_neg(fe_zero, curve))
       \/ /\ fx < curve.order /\ fy < curve.order
          /\ \E v \in FiatArith(fx, fy, ScalarField(curve)) :
                FieldOpK("fiat_scalar_arith", None, v, fe_neg(fe_zero, ScalarField(curve)))
       \/ /\ fx < curve.p /\ fy < curve.p
          /\ \E v \in BigintArith(fx, fy, curve) \cup {curve.a, curve.b, bigint_b3(curve)} :
                FieldOpK("bigint_arith", None, v, bigint_neg(0, curve))

\* The exponent bytes drawn for power(bytes): two bytes made of fy.
ExponentBytes(v) == <<v % 3, 240 + (v % 16)>>

\* The power routines on the element fx: k1 is the result, k2 the
\* exponent (fy, or the big-endian integer of the exponent bytes).
Power ==
    /\ n = <<>>
    /\ \/ /\ fx < curve.p
          /\ FieldOpK("power_u64", None, power_u64(fx, fy, curve), fy)
       \/ /\ fx < curve.p
          /\ FieldOpK("power", None, power(fx, ExponentBytes(fy), curve),
                      BytesToInt(ExponentBytes(fy)))
       \/ /\ curve = CurveK1
          /\ fx < curve.p
          /\ FieldOpK("fe_power", None, fe_power_k1(fx, fy, curve), fy)
       \/ /\ curve = CurveK1
          /\ fx < curve.order
          /\ FieldOpK("gm_power", None, gm_power(fx, fy, ScalarField(curve)), fy)

NextField ==
    \/ FieldSqrt
    \/ FromBytes
    \/ BytesOfValue
    \/ ValueOfBytes
    \/ InverseProduct
    \/ Arith
    \/ Power

SpecField == InitField /\ [][NextField]_vars

SqrtOps == {"sqrt", "sqrt_p224k1", "sqrt_p224r1", "bigint_sqrt", "bigint_scalar_sqrt"}

ScalarOps == {"bigint_scalar_sqrt", "scalar_from_bytes", "gm_from_bytes"}

Modulus == IF op \in ScalarOps THEN curve.order ELSE curve.p

\* C12: sqrt of a returns a present value if and only if some r with
\* r*r == a exists, and a present root r satisfies r*r == a, for every
\* implementation of sqrt (the fiat chains, the p224r1 Tonelli-Shanks and
\* the bigint sqrt of FieldElement and of Scalar).
C12_SqrtPresentIffRoot ==
    op \in SqrtOps =>
        /\ aff # None <=> \E r \in 0 .. (Modulus - 1) : (r * r) % Modulus = fx
        /\ \A r \in aff : (r * r) % Modulus = fx

\* C12 witness: the bigint sqrt of a field with p = 3 mod 4 has reported a
\* root for an element that has none.
C12_Witness ==
    /\ op = "bigint_sqrt"
    /\ curve.p % 4 = 3
    /\ ~\E r \in 0 .. (curve.p - 1) : (r * r) % curve.p = fx
    /\ \E r \in aff : (r * r) % curve.p # fx

\* The fiat chains validate: present exactly for the squares, with a root.
C12_FiatChainsValidated ==
    op \in {"sqrt", "sqrt_p224k1"} =>
        /\ aff # None <=> \E r \in 0 .. (curve.p - 1) : (r * r) % curve.p = fx
        /\ \A r \in aff : (r * r) % curve.p = fx

\* The p224r1 sqrt differs from the claim at zero only.
C12_P224r1AbsentAtZero ==
    op = "sqrt_p224r1" =>
        /\ aff # None <=> (fx # 0 /\ \E r \in 0 .. (curve.p - 1) : (r * r) % curve.p = fx)
        /\ \A r \in aff : (r * r) % curve.p = fx

FromBytesOps == {"from_bytes", "scalar_from_bytes", "bigint_from_bytes", "gm_from_bytes"}

\* C13: from_bytes(b) returns a value if and only if the unsigned
\* big-endian integer encoded by b is strictly less than the modulus (p
\* for FieldElement, the group order for Scalar), the value then being
\* that integer; the modulus itself and all 0xFF bytes are rejected.
C13_FromBytesBelowModulus ==
    op \in FromBytesOps =>
        aff = (IF BytesToInt(n) < Modulus THEN Some(BytesToInt(n)) ELSE None)

\* C13 witness: the Scalar of the superseded secp256k1 module has accepted
\* all 0xFF bytes.
C13_Witness ==
    /\ op = "gm_from_bytes"
    /\ \A i \in 1 .. Len(n) : n[i] = 255
    /\ aff # None

\* The from_bytes of the fiat macros and of the bigint macro reject
\* exactly the integers from the modulus up.
C13_MacrosRejectFromModulus ==
    op \in FromBytesOps \ {"gm_from_bytes"} =>
        aff = (IF BytesToInt(n) < Modulus THEN Some(BytesToInt(n)) ELSE None)

ValueRoundTrips ==
    {"fiat_value_round_trip", "bigint_value_round_trip", "gm_value_round_trip"}

BytesRoundTrips ==
    {"fiat_bytes_round_trip", "bigint_bytes_round_trip", "gm_bytes_round_trip"}

\* C14: from_bytes and to_bytes are mutually inverse: from_bytes(to_bytes(x))
\* is x for every field element or scalar x obtainable through the public
\* operations (constants, from_u64, add, sub, mul, neg, inverse), and
\* to_bytes(from_bytes(b)) is b for every byte string b from_bytes accepts.
C14_BytesRoundTrip ==
    /\ op \in ValueRoundTrips => aff = Some(k1)
    /\ op \in BytesRoundTrips => aff = Some(n)

\* C14 witness: the bigint negation of zero has been written out by
\* to_bytes and from_bytes has rejected the bytes.
C14_Witness ==
    /\ op = "bigint_value_round_trip"
    /\ fx = 0
    /\ k1 = bigint_neg(fx, curve)
    /\ aff = None

\* The fiat macros round-trip in both directions.
C14_FiatBytesRoundTrip ==
    /\ op = "fiat_value_round_trip" => aff = Some(k1)
    /\ op = "fiat_bytes_round_trip" => aff = Some(n)

\* The bigint macro round-trips except on the unreduced negation of zero,
\* the superseded Scalar except on the bytes from_bytes should reject.
C14_OtherRoundTripsElsewhere ==
    /\ op = "bigint_value_round_trip" /\ k1 # curve.p => aff = Some(k1)
    /\ op = "bigint_bytes_round_trip" => aff = Some(n)
    /\ op = "gm_value_round_trip" => aff = Some(k1)
    /\ op = "gm_bytes_round_trip" /\ BytesToInt(n) < curve.order => aff = Some(n)

\* C15: for every nonzero field element or scalar a, a * a.inverse() is
\* one; the bigint inverse returns nothing exactly for zero and otherwise
\* a value t in [0, p) with a*t congruent to 1 modulo p.
C15_InverseProductIsOne ==
    /\ op \in {"inverse", "scalar_inverse", "gm_inverse"} /\ k1 # 0 =>
          aff # None /\ k2 = fe_one
    /\ op \in {"inverse_panic", "scalar_inverse_panic"} => k1 = 0
    /\ op # "bigint_inverse_panic"
    /\ op = "bigint_inverse" =>
          /\ aff = None <=> k1 % curve.p = 0
          /\ \A t \in aff :
                /\ t \in 0 .. (curve.p - 1)
                /\ (k1 * t) % curve.p = 1
                /\ k2 = 1

\* C15 witness: the bigint inverse has been called on the unreduced
\* negation of zero and mod_inverse has panicked.
C15_Witness ==
    /\ op = "bigint_inverse_panic"
    /\ fx = 0
    /\ k1 = bigint_neg(fx, curve)

\* On canonical elements every inverse agrees with the claim.
C15_InverseOfCanonical ==
    /\ op \in {"inverse", "scalar_inverse", "gm_inverse"} /\ k1 # 0 =>
          aff # None /\ k2 = fe_one
    /\ op \in {"inverse_panic", "scalar_inverse_panic"} => k1 = 0
    /\ op = "bigint_inverse_panic" => k1 = curve.p
    /\ op = "bigint_inverse" =>
          /\ aff = None <=> k1 = 0
          /\ \A t \in aff :
                /\ t \in 0 .. (curve.p - 1)
                /\ (k1 * t) % curve.p = 1
                /\ k2 = 1

\* C16: inverse() of the zero element panics and never returns a value,
\* for every fiat-backed FieldElement and Scalar; consequently the affine
\* add_different with x1 == x2 and the affine double with y == 0 panic
\* rather than return a point.
C16_InverseOfZeroPanics ==
    /\ op \in {"inverse", "scalar_inverse", "gm_inverse"} => fx # 0
    /\ op = "affine_double" => fy # 0
    /\ op = "affine_add_different" => fx # other.x

\* C16 witness: the Scalar of the superseded secp256k1 module has returned
\* a value for the inverse of zero.
C16_Witness ==
    /\ op = "gm_inverse"
    /\ fx = 0
    /\ aff = Some(0)

\* The inverses that assert do panic on zero, and with them the affine
\* double at y == 0 and the affine add_different at x1 == x2.
C16_AssertingInversesPanic ==
    /\ op \in {"inverse", "scalar_inverse"} => fx # 0
    /\ op = "affine_double" => fy # 0
    /\ op = "affine_add_different" => fx # other.x

\* The panics happen: a double at y == 0 and an add_different at x1 == x2.
C16_PanicsReached ==
    \/ op = "affine_double_panic" /\ fy = 0
    \/ op = "affine_add_different_panic" /\ fx = other.x /\ fy # other.y

C18_ValuesAreCanonical ==
    /\ op \in {"fiat_arith", "bigint_arith"} =>
          k1 \in 0 .. (curve.p - 1) /\ k2 = 0
    /\ op = "fiat_scalar_arith" =>
          k1 \in 0 .. (curve.order - 1) /\ k2 = 0

\* C18 witness: the bigint negation of zero has produced the integer p.
C18_Witness ==
    /\ op = "bigint_arith"
    /\ fx = 0
    /\ k1 = curve.p
    /\ k2 = curve.p

\* The fiat elements and scalars are canonical throughout.
C18_FiatValuesAreCanonical ==
    /\ op = "fiat_arith" => k1 \in 0 .. (curve.p - 1) /\ k2 = 0
    /\ op = "fiat_scalar_arith" => k1 \in 0 .. (curve.order - 1) /\ k2 = 0

\* The bigint values leave [0, p) only as the negation of zero and as the
\* constant B3.
C18_BigintOutOfRangeOnlyThere ==
    op = "bigint_arith" => k1 \in (0 .. (curve.p - 1)) \cup {curve.p, bigint_b3(curve)}

\* The integer a field element holds is odd.
IsOdd(x) == x % 2 = 1

\* C19: the sign reported for a field element (sign(), and the sign
\* component returned by every PointAffine::compress) is the parity of its
\* canonical integer: Negative if and only if that integer is odd; hence
\* for every nonzero y, y and -y have opposite signs and zero is Positive.
C19_SignIsParity ==
    /\ op = "sign" =>
          \A st \in aff :
             /\ (st[1] = "Negative") <=> IsOdd(fx)
             /\ fx # 0 => st[1] # st[2]
             /\ fx = 0 => st[1] = "Positive"
    /\ op \in {"high_bit_set", "fe_high_bit_set"} =>
          \A st \in aff :
             /\ st[1] <=> IsOdd(fx)
             /\ fx # 0 => st[1] # st[2]
             /\ fx = 0 => ~st[1]
    /\ op \in {"round_trip", "bigint_round_trip", "k1_round_trip"} =>
          ((sgn = "Negative") <=> IsOdd(fy))

\* C19 (amended): sign(), the generic compress and the superseded
\* secp256k1 module report the parity of the canonical integer; the bigint
\* compress reports whether the integer is above p / 2.  Under either rule
\* a nonzero y and -y have opposite signs and zero is Positive (false).
C19_ParityOrUpperHalf ==
    /\ op = "sign" =>
          \A st \in aff :
             /\ (st[1] = "Negative") <=> IsOdd(fx)
             /\ fx # 0 => st[1] # st[2]
             /\ fx = 0 => st[1] = "Positive"
    /\ op = "fe_high_bit_set" =>
          \A st \in aff :
             /\ st[1] <=> IsOdd(fx)
             /\ fx # 0 => st[1] # st[2]
             /\ fx = 0 => ~st[1]
    /\ op = "high_bit_set" =>
          \A st \in aff :
             /\ st[1] <=> (2 * fx > curve.p)
             /\ fx # 0 => st[1] # st[2]
             /\ fx = 0 => ~st[1]
    /\ op \in {"round_trip", "k1_round_trip"} =>
          ((sgn = "Negative") <=> IsOdd(fy))
    /\ op = "bigint_round_trip" =>
          ((sgn = "Negative") <=> (2 * fy > curve.p))

\* C19 witness: the bigint compress of a point with an odd y below p / 2
\* has reported false, where the generic compress reports Negative.
C19_Witness ==
    /\ op = "bigint_round_trip"
    /\ IsOdd(fy)
    /\ fy # 0
    /\ sgn = "Positive"
    /\ sign(fy) = "Negative"

\* The generic compress has reported Negative for an odd y.
C19_GenericWitness ==
    /\ op = "round_trip"
    /\ IsOdd(fy)
    /\ sgn = "Negative"

\* C20: scale(n, curve) scans the scalar from its most significant bit to
\* its least significant bit (bytes in most-significant-first order, bits 7
\* down to 0 within each byte): the accumulator starts at infinity, at
\* every bit position the accumulator is doubled, and the input point is
\* added to the accumulator only when the current bit is 1.  After t bit
\* positions such an accumulator holds [m]P, m the integer of the t most
\* significant bits of the scalar.
C20_ScansMostSignificantFirst ==
    op \in LoopOps =>
        InClass(res,
                RefMul(BytesToInt(n) \div (2 ^ (8 * Len(n) - BitsDone)),
                       RefNorm(self, curve), curve),
                curve)

\* C20 (amended): scale scans the scalar from its least significant bit to
\* its most significant bit (bytes last to first, bits 0 up to 7 within
\* each byte).  The accumulator q starts at infinity and a running
\* multiple a starts at the input point; at every bit position a is
\* doubled, and a is added to q only when the current bit is 1.  After t
\* bit positions a holds [2^t]P and q holds [k mod 2^t]P, and the value
\* returned is the one the scale function computes, [k]P.
C20_ScansLeastSignificantFirst ==
    /\ op \in LoopOps =>
          /\ InClass(other, RefMul(2 ^ BitsDone, RefNorm(self, curve), curve), curve)
          /\ InClass(res,
                     RefMul(BytesToInt(n) % (2 ^ BitsDone), RefNorm(self, curve), curve),
                     curve)
          /\ BitsDone = 0 => res = infinity /\ other = self
    /\ op = "scale" =>
          /\ res = scale(self, n, curve)
          /\ InClass(res, RefMul(BytesToInt(n), RefNorm(self, curve), curve), curve)
    /\ op = "scale_a0" =>
          /\ res = scale_a0(self, n, curve)
          /\ InClass(res, RefMul(BytesToInt(n), RefNorm(self, curve), curve), curve)

\* C20 witness: inside the first byte of a two-byte scalar, after the last
\* byte has been consumed, the accumulator holds the finite multiple of the
\* low bits while the high bits read so far from the front would give
\* another point.
C20_Witness ==
    /\ op = "loop"
    /\ Len(n) = 2
    /\ k1 = 1
    /\ k2 = 3
    /\ n[1] # 0
    /\ self.z \notin {0, 1}
    /\ res.z # 0
    /\ ~InClass(res,
                RefMul(BytesToInt(n) \div (2 ^ (8 * Len(n) - BitsDone)),
                       RefNorm(self, curve), curve),
                curve)

\* C21: the general projective addition formula add_different (and its
\* A = 0 variant) is not valid when its two inputs are equal: there are
\* on-curve points P for which add_different(P, P) is not equivalent to
\* double(P).
C21_AddDifferentInvalidOnEqual ==
    \E P \in OnCurveTriples(curve) :
        \/ ~is_equivalent(add_different(P, P, curve), double(P, curve), curve)
        \/ /\ curve.a0
           /\ ~is_equivalent(add_different_a0(P, P, curve), double_a0(P, curve), curve)

\* C21 (amended): add_different and add_different_a0 are complete: on
\* equal (equivalent) inputs they return an on-curve representative of
\* [2]P, equivalent to double(P), and on every pair of on-curve inputs
\* they agree with add_or_double; the dispatch of equal inputs to double
\* is not needed for validity.
C21_AddDifferentIsComplete ==
    /\ op = "add_different" =>
          /\ OnCurve(res, curve)
          /\ \A g \in aff : is_equivalent(res, g, curve)
          /\ is_equivalent(self, other, curve) =>
                /\ is_equivalent(res, double(self, curve), curve)
                /\ InClass(res, RefAdd(RefNorm(self, curve), RefNorm(self, curve), curve),
                           curve)
    /\ op = "add_different_a0" =>
          /\ OnCurve(res, curve)
          /\ is_equivalent(self, other, curve) =>
                /\ is_equivalent(res, double_a0(self, curve), curve)
                /\ InClass(res, RefAdd(RefNorm(self, curve), RefNorm(self, curve), curve),
                           curve)

\* C21 witness: add_different applied to two different representatives of
\* one finite point has returned a finite representative of its double.
C21_Witness ==
    /\ op = "add_different"
    /\ self # other
    /\ self.z \notin {0, 1}
    /\ is_equivalent(self, other, curve)
    /\ res.z # 0
    /\ is_equivalent(res, double(self, curve), curve)

\* C22: on a curve whose coefficient A is 0, the specialised operations
\* add_different_a0, double_a0, add_or_double_a0 and scale_a0 return points
\* equivalent to those returned by the general add_different, double,
\* add_or_double and scale for all on-curve inputs (including infinity and
\* equal inputs).
C22_A0VariantsAgree ==
    (op \in {"add_different_a0", "double_a0", "add_or_double_a0", "scale_a0"}) =>
        /\ curve.a = 0
        /\ OnCurve(res, curve)
        /\ \A g \in aff :
              /\ OnCurve(g, curve)
              /\ is_equivalent(res, g, curve)
              /\ RefNorm(res, curve) = RefNorm(g, curve)

\* C22 witness: add_or_double_a0 on two different representatives of one
\* finite point (the doubling branch) has returned a finite point, which
\* the general routine returns as well.
C22_Witness ==
    /\ op = "add_or_double_a0"
    /\ self # other
    /\ self.z \notin {0, 1}
    /\ is_equivalent(self, other, curve)
    /\ res.z # 0
    /\ \E g \in aff : g.z # 0 /\ is_equivalent(res, g, curve)

\* The other cases of C22 are reached: infinity as an input of
\* add_different_a0, and scale_a0 over a two-byte scalar.
C22_InfinityAndScaleReached ==
    \/ op = "add_different_a0" /\ self.z = 0 /\ other.z # 0 /\ res.z # 0
    \/ op = "scale_a0" /\ Len(n) = 2 /\ n[1] # 0 /\ res.z # 0

NormalizeOps == {"normalize", "bigint_normalize", "k1_normalize"}

NormalizePanics == {"bigint_normalize_panic", "k1_normalize_panic"}

\* C23: normalize() never panics: applied to a finite point it rewrites it
\* in place to the representative with Z == 1 of the same equivalence
\* class (X/Z, Y/Z, 1), and applied to a point at infinity (Z == 0) it
\* leaves X, Y and Z unchanged; this holds for the generic projective
\* layer and for the bigint point implementation.  (res is the point
\* before the call, self the point after it.)
C23_NormalizeNeverPanics ==
    /\ op \notin NormalizePanics
    /\ op \in NormalizeOps =>
          /\ res.z # 0 => self.z = 1 /\ self = RefNorm(res, curve)
          /\ res.z = 0 => self = res

\* C23 witness: the bigint normalize applied to a point at infinity has
\* panicked.
C23_Witness ==
    /\ op = "bigint_normalize_panic"
    /\ res.z = 0
    /\ OnCurve(res, curve)
    /\ self = res

\* The generic normalize meets C23 on every on-curve triple, and the other
\* two panic at infinity only and meet it on finite points.
C23_GenericNormalize ==
    /\ op \in NormalizeOps =>
          /\ res.z # 0 => self.z = 1 /\ self = RefNorm(res, curve)
          /\ res.z = 0 => self = res /\ op = "normalize"
    /\ op \in NormalizePanics => res.z = 0 /\ self = res

\* The generic normalize has rewritten a finite non-normalized point, and
\* has left a point at infinity as it was.
C23_GenericWitness ==
    \/ op = "normalize" /\ res.z \notin {0, 1} /\ self.z = 1
    \/ op = "normalize" /\ res.z = 0 /\ self = res /\ res # infinity

\* C24: the Tonelli-Shanks square-root loops always terminate within the
\* bound fixed by the prime: in p224r1 FieldElement::sqrt the outer loop
\* runs at most S times because m strictly decreases on every iteration
\* (the inner loop either exits with 1 <= i < m or returns absent when i
\* reaches m), and helper::tonelli_shanks likewise terminates for every
\* n < p with p an odd prime, including its search for a non-residue z.
\* (fy iterations done and m = k1 never exceed S together; i = k2 stays
\* below m; the split keeps q * 2^s = p - 1 and the search keeps z < p.)
C24_SqrtLoopsAreBounded ==
    /\ op \in {"p224r1_outer", "p224r1_inner"} =>
          /\ k1 >= 1
          /\ fy + k1 <= curve.s
          /\ fy >= 1 => k1 < curve.s
    /\ op = "p224r1_inner" => k2 < k1
    /\ op \in {"ts_outer", "ts_inner"} =>
          /\ k1 >= 1
          /\ fy + k1 <= other.s
          /\ fy >= 1 => k1 < other.s
    /\ op = "ts_inner" => k2 < k1
    /\ op = "ts_split" => other.q >= 1 /\ other.q * (2 ^ other.s) = curve.p - 1
    /\ op = "ts_search" => other.z >= 2 /\ other.z < curve.p
    /\ op \in SqrtReturned => fy <= (IF curve.kind = "helper" THEN other.s ELSE curve.s)

\* C24 witness: sqrt of p224r1 has returned a validated root after more
\* than one iteration of its outer loop.
C24_Witness ==
    /\ op = "p224r1_return"
    /\ curve.kind = "p224r1"
    /\ fy >= 2
    /\ k1 < curve.s
    /\ \E r \in aff : fe_mul(r, r, curve) = fx

\* tonelli_shanks has returned after a search for z that went past 2 and
\* more than one iteration of its outer loop.
C24_HelperWitness ==
    /\ op = "ts_return"
    /\ other.z > 2
    /\ fy >= 2

\* Every run of either routine returns.
C24_EventuallyReturns == <>(op \in SqrtReturned)

\* m strictly decreases at the end of every outer iteration.
C24_MDecreases ==
    [][(op \in {"p224r1_inner", "ts_inner"} /\ op' \in {"p224r1_outer", "ts_outer"})
          => k1' < k1]_vars

\* n is zero or a quadratic non-residue modulo the prime m.
NotAResidue(v, m) == \A r \in 1 .. (m - 1) : (r * r) % m # v

\* C25: for every odd prime p (including primes wider than the machine
\* word) and every n in [0, p), helper::tonelli_shanks(n, p) returns None
\* when n is zero or a non-residue and never panics: legendre_symbol
\* classifies n^((p-1)/2) mod p as One, Zero or MinusOne for every
\* possible value of that power, including p - 1.
C25_TonelliShanksNeverPanics ==
    curve.kind = "helper" =>
        /\ op # "ts_panic"
        /\ (op # "init" /\ NotAResidue(fx, curve.p)) => op = "ts_none"

\* C25 witness: for a prime above the word and a non-residue n, whose
\* power is p - 1, tonelli_shanks has panicked in legendre_symbol.
C25_Witness ==
    /\ op = "ts_panic"
    /\ curve.kind = "helper"
    /\ curve.p > 2 ^ WordBits
    /\ fx # 0
    /\ NotAResidue(fx, curve.p)
    /\ modpow(fx, (curve.p - 1) \div 2, curve.p) = curve.p - 1

\* The panic is met only for a non-residue of a prime whose p - 1 does not
\* fit the word; zero, the residues and the narrow primes are classified.
C25_PanicsOnlyForWideNonResidues ==
    curve.kind = "helper" =>
        /\ op = "ts_panic" =>
              /\ curve.p - 1 >= 2 ^ WordBits
              /\ fx # 0
              /\ NotAResidue(fx, curve.p)
        /\ (op \notin {"init", "ts_panic"} /\ NotAResidue(fx, curve.p)) => op = "ts_none"
        /\ op = "ts_return" => \E r \in aff : (r * r) % curve.p = fx

\* x to the power k modulo m: x^k = (x^(k div 2))^2 * x^(k mod 2).
RECURSIVE RefPow(_, _, _)
RefPow(x, k, m) ==
    IF k = 0 THEN 1 % m
    ELSE LET h == CHOOSE v \in {RefPow(x, k \div 2, m)} : TRUE
         IN  (h * h * (IF k % 2 = 1 THEN x ELSE 1)) % m

\* C26: every power routine returns self raised to the given exponent in
\* the field, for every exponent: power_u64(n) and the p256k1 fe/gm
\* power(n) return self^n (the special cases n = 0, 1, 2 and the
\* square-and-multiply loop for n >= 3 agree), and power(bytes) returns
\* self^k for k the big-endian integer of bytes.
C26_PowerIsExponentiation ==
    /\ op \in {"power_u64", "power", "fe_power"} => k1 = RefPow(fx, k2, curve.p)
    /\ op = "gm_power" => k1 = RefPow(fx, k2, curve.order)

\* C26 witness: the superseded FieldElement::power has returned zero for a
\* nonzero element and an exponent above 2.
C26_Witness ==
    /\ op = "fe_power"
    /\ fx # 0
    /\ k2 >= 3
    /\ k1 = 0
    /\ RefPow(fx, k2, curve.p) # 0

\* power_u64, power(bytes) and the superseded Scalar::power are
\* exponentiations, and FieldElement::power is one for the exponents 0, 1, 2.
C26_OtherPowers ==
    /\ op \in {"power_u64", "power"} => k1 = RefPow(fx, k2, curve.p)
    /\ op = "gm_power" => k1 = RefPow(fx, k2, curve.order)
    /\ (op = "fe_power" /\ k2 <= 2) => k1 = RefPow(fx, k2, curve.p)

\* power_u64 has gone through its loop, and power through two bytes.
C26_LoopsReached ==
    \/ op = "power_u64" /\ k2 >= 3 /\ fx > 1 /\ k1 > 1
    \/ op = "power" /\ k2 > 255 /\ fx > 1 /\ k1 > 1

(***************************************************************************)
(* The constant-time layer (mp/ct.rs, mp/limbs.rs).  A machine word holds  *)
(* WordBits bits here (64 in the source), so `>> 63` is the shift by       *)
(* WordBits - 1 and a limb is one such word.                               *)
(***************************************************************************)
WordModulus == 2 ^ WordBits

Words == 0 .. WordModulus - 1

RECURSIVE xor_bits(_, _, _)
xor_bits(a, b, k) ==
    IF k = 0 THEN 0
    ELSE ((a + b) % 2) + 2 * xor_bits(a \div 2, b \div 2, k - 1)

RECURSIVE or_bits(_, _, _)
or_bits(a, b, k) ==
    IF k = 0 THEN 0
    ELSE (IF a % 2 = 1 \/ b % 2 = 1 THEN 1 ELSE 0) + 2 * or_bits(a \div 2, b \div 2, k - 1)

RECURSIVE and_bits(_, _, _)
and_bits(a, b, k) ==
    IF k = 0 THEN 0
    ELSE ((a % 2) * (b % 2)) + 2 * and_bits(a \div 2, b \div 2, k - 1)

\* The operators ^, | and & on words.
word_xor(a, b) == xor_bits(a, b, WordBits)

word_or(a, b) == or_bits(a, b, WordBits)

word_and(a, b) == and_bits(a, b, WordBits)

wrapping_neg(x) == (WordModulus - x) % WordModulus

wrapping_sub(a, b) == (a - b + WordModulus) % WordModulus

\* x >> 63: the top bit of the word.
shr_top(x) == x \div (2 ^ (WordBits - 1))

\* Choice(u64): a Choice is written as the word it carries.
is_true(c) == c = 1

is_false(c) == c = 0

negate(c) == word_xor(1, c)

bitand(c, b) == word_and(c, b)

\* u64::ct_zero and ct_nonzero.
ct_zero(x) == word_xor(1, shr_top(word_or(x, wrapping_neg(x))))

\* (x | -x) with the shift left out.
ct_nonzero_unshifted(x) == word_or(x, wrapping_neg(x))

ct_nonzero(x) == shr_top(word_or(x, wrapping_neg(x)))

\* u64::ct_eq and ct_ne.
ct_eq(a, b) == ct_zero(word_xor(a, b))

ct_ne(a, b) == ct_nonzero(word_xor(a, b))

\* The build profiles: `a - b` on u64 is checked for overflow in a debug
\* build and wraps in a release build.
Builds == {"debug", "release"}

\* u64::ct_lt: the subtraction a - b overflows when a < b.
ct_lt_panics(a, b, build) == build = "debug" /\ a < b

ct_lt(a, b) == shr_top(word_xor(a, word_or(word_xor(a, b), word_xor(wrapping_sub(a, b), b))))

\* u64::ct_gt(a, b) is ct_lt(b, a).
ct_gt_panics(a, b, build) == ct_lt_panics(b, a, build)

ct_gt(a, b) == ct_lt(b, a)

\* The default CtGreater::ct_le(a, b) is Self::ct_gt(b, a).
ct_le_panics(a, b, build) == ct_gt_panics(b, a, build)

ct_le(a, b) == ct_gt(b, a)

\* The default CtLesser::ct_ge(a, b) is Self::ct_lt(b, a).
ct_ge_panics(a, b, build) == ct_lt_panics(b, a, build)

ct_ge(a, b) == ct_lt(b, a)

\* The accumulator that keeps only the element it has just read.
RECURSIVE slice_acc_last(_, _)
slice_acc_last(s, acc) ==
    IF Len(s) = 0 THEN acc
    ELSE slice_acc_last(Tail(s), s[1])

\* ct_zero / ct_nonzero of [u8; N], [u64; N] and [u64]: acc |= b over the
\* elements.
RECURSIVE slice_acc(_, _)
slice_acc(s, acc) ==
    IF Len(s) = 0 THEN acc
    ELSE slice_acc(Tail(s), word_or(acc, s[1]))

slice_ct_zero(s) == ct_zero(slice_acc(s, 0))

slice_ct_nonzero(s) == ct_nonzero(slice_acc(s, 0))

\* [u64]::ct_eq: assert_eq! on the lengths, then acc |= x ^ y.
slice_ct_eq_panics(a, b) == Len(a) # Len(b)

slice_ct_eq(a, b) ==
    ct_zero(slice_acc([i \in 1 .. Len(a) |-> word_xor(a[i], b[i])], 0))

\* The default CtEqual::ct_ne is ct_eq(b).negate().
slice_ct_ne(a, b) == negate(slice_ct_eq(a, b))

\* The four limb comparisons as the Choice they return: le subtracts a
\* from b and returns 1 ^ borrow, lt subtracts b from a and returns
\* (borrow | -borrow) >> 63.
limbsbe_le_choice(a, b) == word_xor(1, limbsbe_borrow(b, a))

limbsbe_lt_choice(a, b) == ct_nonzero(limbsbe_borrow(a, b))

limbsle_le_choice(a, b) == word_xor(1, limbsle_borrow(b, a, 1, 0))

limbsle_lt_choice(a, b) == ct_nonzero(limbsle_borrow(a, b, 1, 0))

(***************************************************************************)
(* The constant-time operations applied to every pair of words and to      *)
(* short limb slices.  fx, fy: the words; self, other: the slices; sgn:    *)
(* the build profile; res: the Choice returned; k1: the Choice of the      *)
(* companion operation (or the right operand of &); k2: the operand of     *)
(* negate and the left operand of &.                                       *)
(***************************************************************************)
MaxLimbs == 2

LimbVals == {0, 1, WordModulus \div 2, WordModulus - 1}

LimbSlices == UNION {[1 .. k -> LimbVals] : k \in 0 .. MaxLimbs}

InitCt ==
    /\ curve = CurveK1
    /\ op = "init"
    /\ n = <<>>
    /\ aff = None
    /\ res = 0
    /\ k1 = 0
    /\ k2 = 0
    /\ \/ /\ fx \in Words
          /\ fy \in Words
          /\ sgn \in Builds
          /\ self = <<>>
          /\ other = <<>>
       \/ /\ fx = 0
          /\ fy = 0
          /\ sgn = "release"
          /\ self \in LimbSlices
          /\ other \in LimbSlices

CtOp(name, panics, r, companion) ==
    /\ op = "init"
    /\ IF panics
       THEN /\ op' = "panic"
            /\ k2' = name
            /\ UNCHANGED <<res, k1>>
       ELSE /\ op' = name
            /\ res' = r
            /\ k1' = companion
            /\ k2' = 0
    /\ UNCHANGED <<curve, self, other, n, aff, fx, fy, sgn>>

U64CtZero == CtOp("ct_zero", FALSE, ct_zero(fx), ct_nonzero(fx))

U64CtEq == CtOp("ct_eq", FALSE, ct_eq(fx, fy), ct_ne(fx, fy))

U64CtLt == CtOp("ct_lt", ct_lt_panics(fx, fy, sgn), ct_lt(fx, fy), ct_lt(fx, fy))

U64CtGt == CtOp("ct_gt", ct_gt_panics(fx, fy, sgn), ct_gt(fx, fy), ct_gt(fx, fy))

U64CtLe == CtOp("ct_le", ct_le_panics(fx, fy, sgn), ct_le(fx, fy), ct_le(fx, fy))

U64CtGe == CtOp("ct_ge", ct_ge_panics(fx, fy, sgn), ct_ge(fx, fy), ct_ge(fx, fy))

SliceCtZero == CtOp("slice_ct_zero", FALSE, slice_ct_zero(self), slice_ct_nonzero(self))

SliceCtEq ==
    CtOp("slice_ct_eq", slice_ct_eq_panics(self, other),
         slice_ct_eq(self, other), slice_ct_ne(self, other))

\* Each limb comparison, with the opposite comparison of the swapped
\* operands as its companion.
LimbsBeLe ==
    CtOp("limbsbe_le", limbs_cmp_panics(self, other),
         limbsbe_le_choice(self, other), limbsbe_lt_choice(other, self))

LimbsBeLt ==
    CtOp("limbsbe_lt", limbs_cmp_panics(self, other),
         limbsbe_lt_choice(self, other), limbsbe_le_choice(other, self))

LimbsLeLe ==
    CtOp("limbsle_le", limbs_cmp_panics(self, other),
         limbsle_le_choice(self, other), limbsle_lt_choice(other, self))

LimbsLeLt ==
    CtOp("limbsle_lt", limbs_cmp_panics(self, other),
         limbsle_lt_choice(self, other), limbsle_le_choice(other, self))

ProducingOps ==
    {"ct_zero", "ct_eq", "ct_lt", "ct_gt", "ct_le", "ct_ge", "slice_ct_zero",
     "slice_ct_eq", "limbsbe_le", "limbsbe_lt", "limbsle_le", "limbsle_lt"}

ChoiceOps == ProducingOps \cup {"negate", "and"}

\* Choice::negate applied to a Choice an operation returned.
Negate ==
    /\ op \in ChoiceOps
    /\ op' = "negate"
    /\ res' = negate(res)
    /\ k2' = res
    /\ UNCHANGED <<curve, self, other, n, aff, fx, fy, sgn, k1>>

\* The & of a returned Choice with the Choice of a second operation.
And ==
    /\ op \in ChoiceOps
    /\ \E b \in {ct_zero(fy), ct_nonzero(fy), slice_ct_zero(other), k1} :
          /\ op' = "and"
          /\ res' = bitand(res, b)
          /\ k1' = b
          /\ k2' = res
    /\ UNCHANGED <<curve, self, other, n, aff, fx, fy, sgn>>

NextCt ==
    \/ U64CtZero
    \/ U64CtEq
    \/ U64CtLt
    \/ U64CtGt
    \/ U64CtLe
    \/ U64CtGe
    \/ SliceCtZero
    \/ SliceCtEq
    \/ LimbsBeLe
    \/ LimbsBeLt
    \/ LimbsLeLe
    \/ LimbsLeLt
    \/ Negate
    \/ And

SpecCt == InitCt /\ [][NextCt]_vars

\* C27: every Choice returned by ct_zero, ct_nonzero, ct_eq, ct_ne, ct_lt,
\* the limb comparisons, negate() and & carries 0 or 1, so is_true() and
\* is_false() are complementary, negate() is an involution that flips the
\* Choice, and & is the logical AND of its operands.
C27_ChoiceIsZeroOrOne ==
    op \in ChoiceOps =>
        /\ res \in {0, 1}
        /\ k1 \in {0, 1}
        /\ (is_true(res) <=> ~is_false(res))
        /\ (is_true(k1) <=> ~is_false(k1))
        /\ negate(negate(res)) = res
        /\ (is_true(negate(res)) <=> is_false(res))
        /\ op = "negate" => (is_true(res) <=> is_false(k2))
        /\ op = "and" => (is_true(res) <=> (is_true(k2) /\ is_true(k1)))

\* C27 witness: & has returned true for two true Choices, the left one the
\* negation of a false limb comparison of two-limb values.
C27_Witness ==
    /\ op = "and"
    /\ is_true(res)
    /\ is_true(k1)
    /\ is_true(k2)
    /\ Len(self) = 2
    /\ Len(other) = 2
    /\ limbsbe_lt_choice(self, other) = 0

\* C28: ct_zero(x) is true iff x is zero (a word, or every element of an
\* array or slice), ct_nonzero(x) is its exact negation, ct_eq(a, b) on
\* words and on slices of equal length is true iff a = b element for
\* element, and ct_eq on slices of different lengths panics.
C28_ZeroAndEqualAreExact ==
    /\ op = "ct_zero" =>
          /\ is_true(res) <=> fx = 0
          /\ k1 = negate(res)
          /\ is_true(k1) <=> fx # 0
    /\ op = "ct_eq" => (is_true(res) <=> fx = fy)
    /\ op = "slice_ct_zero" =>
          /\ is_true(res) <=> (\A i \in 1 .. Len(self) : self[i] = 0)
          /\ k1 = negate(res)
    /\ op = "slice_ct_eq" =>
          /\ Len(self) = Len(other)
          /\ is_true(res) <=> self = other
    /\ (op = "panic" /\ k2 = "slice_ct_eq") => Len(self) # Len(other)

\* C28 witness: ct_zero of a two-limb slice whose first limb is zero and
\* whose second is not has returned false.
C28_Witness ==
    /\ op = "slice_ct_zero"
    /\ Len(self) = 2
    /\ self[1] = 0
    /\ self[2] # 0
    /\ is_false(res)
    /\ is_true(k1)

\* ct_eq has panicked on slices of different lengths, has returned true on
\* equal two-limb slices, and the word ct_eq has returned true and false.
C28_PanicReached == op = "panic" /\ k2 = "slice_ct_eq" /\ Len(self) # Len(other)

C28_EqualSlicesReached == op = "slice_ct_eq" /\ Len(self) = 2 /\ is_true(res)

\* The unsigned integers held by big-endian and little-endian limbs.
be_int(limbs) == le_value(reverse(limbs), LimbBase)

le_int(limbs) == le_value(limbs, LimbBase)

LimbCmpOps == {"limbsbe_le", "limbsbe_lt", "limbsle_le", "limbsle_lt"}

\* C29: for limb arrays a, b of equal length, limbsbe_lt and limbsle_lt are
\* true iff a < b as unsigned multi-limb integers, limbsbe_le and
\* limbsle_le iff a <= b; le(a, b) is the negation of lt(b, a), and the
\* borrow that limb_subborrow propagates is 0 or 1.
C29_LimbComparisonsAreExact ==
    /\ op = "limbsbe_lt" => (is_true(res) <=> be_int(self) < be_int(other))
    /\ op = "limbsle_lt" => (is_true(res) <=> le_int(self) < le_int(other))
    /\ op = "limbsbe_le" => (is_true(res) <=> be_int(self) <= be_int(other))
    /\ op = "limbsle_le" => (is_true(res) <=> le_int(self) <= le_int(other))
    /\ op \in LimbCmpOps =>
          /\ Len(self) = Len(other)
          /\ res = negate(k1)
          /\ limbsbe_borrow(self, other) \in {0, 1}
          /\ limbsbe_borrow(other, self) \in {0, 1}
          /\ limbsle_borrow(self, other, 1, 0) \in {0, 1}
          /\ limbsle_borrow(other, self, 1, 0) \in {0, 1}
          /\ \A i \in 1 .. Len(self) : \A bw \in {0, 1} :
                limb_subborrow(bw, self[i], other[i])[2] \in {0, 1}

\* C29 witness: limbsbe_lt has returned true for two-limb values that are
\* equal in the high limb, so the borrow of the low limb decided.
C29_Witness ==
    /\ op = "limbsbe_lt"
    /\ Len(self) = 2
    /\ Len(other) = 2
    /\ self[1] = other[1]
    /\ self[2] < other[2]
    /\ is_true(res)
    /\ is_false(k1)

\* limbsle_le has returned true on equal two-limb values, and false on
\* values whose little-endian and big-endian orders differ.
C29_LeWitness ==
    \/ op = "limbsle_le" /\ Len(self) = 2 /\ self = other /\ is_true(res)
    \/ /\ op = "limbsle_le"
       /\ Len(self) = 2
       /\ Len(other) = 2
       /\ is_false(res)
       /\ be_int(self) < be_int(other)

U64CmpOps == {"ct_lt", "ct_gt", "ct_le", "ct_ge"}

\* C30: the u64 comparisons agree with the integer comparison their name
\* denotes for every pair of words and never panic on overflow: ct_lt(a, b)
\* iff a < b, ct_gt(a, b) iff a > b, the default ct_le(a, b) iff a <= b and
\* the default ct_ge(a, b) iff a >= b.
C30_ComparisonsAgreeWithNames ==
    /\ op = "panic" => k2 \notin U64CmpOps
    /\ op = "ct_lt" => (is_true(res) <=> fx < fy)
    /\ op = "ct_gt" => (is_true(res) <=> fx > fy)
    /\ op = "ct_le" => (is_true(res) <=> fx <= fy)
    /\ op = "ct_ge" => (is_true(res) <=> fx >= fy)

\* C30 witness: the default ct_le has returned false for equal operands.
C30_Witness ==
    /\ op = "ct_le"
    /\ fx = fy
    /\ is_false(res)

\* The default ct_ge has returned false for equal operands, and ct_lt has
\* panicked on the overflow of a - b in a debug build.
C30_GeWitness == op = "ct_ge" /\ fx = fy /\ is_false(res)

C30_PanicWitness == op = "panic" /\ k2 = "ct_lt" /\ fx < fy /\ sgn = "debug"

\* What the code does: ct_lt and ct_gt are exact whenever they return, the
\* default ct_le is the strict a < b and the default ct_ge the strict
\* a > b, and a comparison panics exactly in a debug build when the
\* subtraction it reaches overflows.
C30_StrictDefaults ==
    /\ op = "ct_lt" => (is_true(res) <=> fx < fy)
    /\ op = "ct_gt" => (is_true(res) <=> fx > fy)
    /\ op = "ct_le" => (is_true(res) <=> fx < fy)
    /\ op = "ct_ge" => (is_true(res) <=> fx > fy)
    /\ (op = "panic" /\ k2 \in {"ct_lt", "ct_le"}) => (sgn = "debug" /\ fx < fy)
    /\ (op = "panic" /\ k2 \in {"ct_gt", "ct_ge"}) => (sgn = "debug" /\ fy < fx)
    /\ (op \in {"ct_lt", "ct_le"} /\ sgn = "debug") => fx >= fy
    /\ (op \in {"ct_gt", "ct_ge"} /\ sgn = "debug") => fy >= fx

====
